---- MODULE Spec2Model ----
(***************************************************************************)
(* The blogger agent: context assembly and memory retrieval               *)
(* (ContextBuilder, QdrantService, with the concurrent searches of         *)
(* searchMultipleQueries), ErrorHandler.handleError, the metadata of a     *)
(* post (MetadataBuilder), saving and publishing (PublisherAdapter), the   *)
(* configuration (ConfigManager), a run of the agent (BloggerAgent.run)    *)
(* and the processes that start runs (the scheduler loop of run.sh, the    *)
(* POST /create handler).                                                  *)
(*                                                                         *)
(* A JavaScript string is a sequence of one-character strings, so that     *)
(* toLowerCase, includes, substring and join are computed on characters.   *)
(* An operation returns a record [threw, val, tr]: whether it threw, the   *)
(* value it returned, and the trace of requests it issued to its           *)
(* collaborators (data store, embedding API, vector backend, error         *)
(* handler), in order.                                                     *)
(***************************************************************************)
EXTENDS Integers, Sequences, FiniteSets, TLC

VARIABLES phase, op, arg, ret, trace, scheduler, handlers, searches

vars == <<phase, op, arg, ret, trace, scheduler, handlers, searches>>

(* The processes around the calls: the scheduler loop, the handlers of the *)
(* web server, and the per-query searches of a searchMultipleQueries that  *)
(* is in flight                                                            *)
procs == <<scheduler, handlers, searches>>

-----------------------------------------------------------------------------
(* Bounds of the model *)

MaxPool == 3

MaxQueries == 2

MaxHits == 2

MaxTweets == 2

MaxRequests == 2

-----------------------------------------------------------------------------
(* Sequences *)

Min(a, b) == IF a < b THEN a ELSE b

Range(s) == {s[i] : i \in 1..Len(s)}

SeqsUpTo(S, n) == UNION {[1..k -> S] : k \in 0..n}

RECURSIVE Flatten(_)
Flatten(ss) == IF ss = <<>> THEN <<>> ELSE Head(ss) \o Flatten(Tail(ss))

-----------------------------------------------------------------------------
(* JavaScript strings *)

Upper ==
  <<"A", "B", "C", "D", "E", "F", "G", "H", "I", "J", "K", "L", "M",
    "N", "O", "P", "Q", "R", "S", "T", "U", "V", "W", "X", "Y", "Z">>

Lower ==
  <<"a", "b", "c", "d", "e", "f", "g", "h", "i", "j", "k", "l", "m",
    "n", "o", "p", "q", "r", "s", "t", "u", "v", "w", "x", "y", "z">>

toLowerChar(c) ==
  IF \E i \in 1..Len(Upper) : Upper[i] = c
  THEN Lower[CHOOSE i \in 1..Len(Upper) : Upper[i] = c]
  ELSE c

toLowerCase(s) == [i \in 1..Len(s) |-> toLowerChar(s[i])]

includes(s, k) ==
  \E i \in 0..(Len(s) - Len(k)) : \A j \in 1..Len(k) : s[i + j] = k[j]

substring(s, from, to) == SubSeq(s, from + 1, Min(to, Len(s)))

(* A value that is not a string (null in a tag array): toLowerCase on it  *)
(* is a TypeError, join renders it as the empty string.                    *)
NotAString == <<"<null>">>

IsString(s) == s # NotAString

RECURSIVE join(_, _)
join(ss, sep) ==
  IF ss = <<>> THEN <<>>
  ELSE LET h == IF IsString(Head(ss)) THEN Head(ss) ELSE <<>>
       IN  IF Len(ss) = 1 THEN h ELSE h \o sep \o join(Tail(ss), sep)

CommaSpace == <<",", " ">>

-----------------------------------------------------------------------------
(* Category inference *)

categoryMappings ==
  <<
    [category |-> "philosophy", keywords |-> <<
        <<"p", "h", "i", "l", "o", "s", "o", "p", "h", "y">>,
        <<"e", "x", "i", "s", "t", "e", "n", "t", "i", "a", "l">>,
        <<"m", "e", "a", "n", "i", "n", "g">>,
        <<"c", "o", "n", "s", "c", "i", "o", "u", "s", "n", "e", "s", "s">>,
        <<"r", "e", "a", "l", "i", "t", "y">>>>],
    [category |-> "technology", keywords |-> <<
        <<"t", "e", "c", "h">>,
        <<"t", "e", "c", "h", "n", "o", "l", "o", "g", "y">>,
        <<"a", "i">>,
        <<"a", "r", "t", "i", "f", "i", "c", "i", "a", "l", " ", "i", "n", "t", "e", "l", "l", "i", "g", "e", "n", "c", "e">>,
        <<"p", "r", "o", "g", "r", "a", "m", "m", "i", "n", "g">>>>],
    [category |-> "art", keywords |-> <<
        <<"a", "r", "t">>,
        <<"c", "r", "e", "a", "t", "i", "v", "e">>,
        <<"v", "i", "s", "u", "a", "l">>,
        <<"a", "e", "s", "t", "h", "e", "t", "i", "c">>,
        <<"d", "e", "s", "i", "g", "n">>>>],
    [category |-> "culture", keywords |-> <<
        <<"c", "u", "l", "t", "u", "r", "e">>,
        <<"s", "o", "c", "i", "e", "t", "y">>,
        <<"s", "o", "c", "i", "a", "l">>,
        <<"p", "o", "l", "i", "t", "i", "c", "s">>,
        <<"n", "e", "w", "s">>>>],
    [category |-> "personal", keywords |-> <<
        <<"p", "e", "r", "s", "o", "n", "a", "l">>,
        <<"r", "e", "f", "l", "e", "c", "t", "i", "o", "n">>,
        <<"l", "i", "f", "e">>,
        <<"e", "x", "p", "e", "r", "i", "e", "n", "c", "e">>,
        <<"j", "o", "u", "r", "n", "e", "y">>>>]
  >>

Categories == {categoryMappings[i].category : i \in 1..Len(categoryMappings)}

(* keywords.some(keyword => lowercaseTag.includes(keyword)) *)
tagMatches(lowercaseTag, keywords) ==
  \E i \in 1..Len(keywords) : includes(lowercaseTag, keywords[i])

(* An increment that forgets the count so far. *)
incrementOnce(categoryCounts, category) ==
  IF \E i \in 1..Len(categoryCounts) : categoryCounts[i].category = category
  THEN categoryCounts
  ELSE Append(categoryCounts, [category |-> category, count |-> 1])

(* categoryCounts[category] = (categoryCounts[category] || 0) + 1 on an    *)
(* object whose keys keep their insertion order: a sequence of             *)
(* [category, count] in the order the categories were first counted.       *)
increment(categoryCounts, category) ==
  IF \E i \in 1..Len(categoryCounts) : categoryCounts[i].category = category
  THEN [i \in 1..Len(categoryCounts) |->
          IF categoryCounts[i].category = category
          THEN [categoryCounts[i] EXCEPT !.count = @ + 1]
          ELSE categoryCounts[i]]
  ELSE Append(categoryCounts, [category |-> category, count |-> 1])

(* The inner loop over Object.entries(categoryMappings), for one tag. *)
RECURSIVE countTag(_, _, _)
countTag(categoryCounts, lowercaseTag, m) ==
  IF m > Len(categoryMappings) THEN categoryCounts
  ELSE countTag(
         IF tagMatches(lowercaseTag, categoryMappings[m].keywords)
         THEN increment(categoryCounts, categoryMappings[m].category)
         ELSE categoryCounts,
         lowercaseTag, m + 1)

(* The outer loop over the tags; a tag that is not a string throws.        *)
(* Returns [threw, counts].                                                *)
RECURSIVE countTags(_, _)
countTags(categoryCounts, tags) ==
  IF tags = <<>> THEN [threw |-> FALSE, counts |-> categoryCounts]
  ELSE IF ~IsString(Head(tags)) THEN [threw |-> TRUE, counts |-> categoryCounts]
  ELSE countTags(countTag(categoryCounts, toLowerCase(Head(tags)), 1), Tail(tags))

(* A loop that lets a later category with an equal count win. *)
RECURSIVE findMaxLast(_, _, _, _)
findMaxLast(categoryCounts, i, maxCount, maxCategory) ==
  IF i > Len(categoryCounts) THEN maxCategory
  ELSE IF categoryCounts[i].count >= maxCount
       THEN findMaxLast(categoryCounts, i + 1, categoryCounts[i].count, categoryCounts[i].category)
       ELSE findMaxLast(categoryCounts, i + 1, maxCount, maxCategory)

(* The loop that finds the category with the highest count. *)
RECURSIVE findMax(_, _, _, _)
findMax(categoryCounts, i, maxCount, maxCategory) ==
  IF i > Len(categoryCounts) THEN maxCategory
  ELSE IF categoryCounts[i].count > maxCount
       THEN findMax(categoryCounts, i + 1, categoryCounts[i].count, categoryCounts[i].category)
       ELSE findMax(categoryCounts, i + 1, maxCount, maxCategory)

DefaultCategory == "philosophy"

inferCategory(allTags) ==
  LET c == countTags(<<>>, allTags)
  IN  IF c.threw THEN [threw |-> TRUE, val |-> DefaultCategory]
      ELSE [threw |-> FALSE, val |-> findMax(c.counts, 1, 0, DefaultCategory)]

(* tweets.flatMap(tweet => tweet.vibe_tags || []) *)
vibeTagsOf(tweets) == Flatten([i \in 1..Len(tweets) |-> tweets[i].vibe_tags])

(* memoryInsights.flatMap(insight => insight.tags || []) *)
memoryTagsOf(memoryInsights) ==
  Flatten([i \in 1..Len(memoryInsights) |-> memoryInsights[i].tags])

determineCategory(tweets, memoryInsights) ==
  inferCategory(vibeTagsOf(tweets) \o memoryTagsOf(memoryInsights))

determineCategoryFromMemories(memoryInsights) ==
  inferCategory(memoryTagsOf(memoryInsights))

-----------------------------------------------------------------------------
(* Results and request traces *)

Undefined == "undefined"

Null == "null"

(* The outcome of a call: threw with the error as val, or returned val;    *)
(* tr lists the requests it made to its collaborators, in order.           *)
R(threw, val, tr) == [threw |-> threw, val |-> val, tr |-> tr]

(* One request to a collaborator: k is its kind, o the table, endpoint or  *)
(* operation label, t the error type or the outcome, n a number (limit,    *)
(* attempt), x a text (query, message).                                    *)
Ev(k, o, t, n, x) == [k |-> k, o |-> o, t |-> t, n |-> n, x |-> x]

-----------------------------------------------------------------------------
(* ErrorHandler *)

ErrorTypes ==
  {"api_failure", "database_error", "content_generation", "network_error",
   "configuration_error", "memory_error", "unknown"}

kwRateLimit == <<"r", "a", "t", "e", " ", "l", "i", "m", "i", "t">>

kwConnection == <<"c", "o", "n", "n", "e", "c", "t", "i", "o", "n">>

DefaultAttempt == 1

DefaultMaxAttempts == 3

(* An ErrorContext; attempt or maxAttempts 0 stands for a field left out   *)
(* (context.attempt || 1 treats both alike).                               *)
Ctx(operation) == [given |-> TRUE, operation |-> operation, attempt |-> 0, maxAttempts |-> 0]

NoCtx == [given |-> FALSE, operation |-> Undefined, attempt |-> 0, maxAttempts |-> 0]

isTransientError(type, error) ==
  \/ type = "network_error"
  \/ type = "api_failure" /\ includes(toLowerCase(error.message), kwRateLimit)
  \/ type = "database_error" /\ includes(toLowerCase(error.message), kwConnection)

(* A canRetry that still allows a retry at the last attempt. *)
canRetryInclusive(context) ==
  LET attempt == IF context.attempt = 0 THEN DefaultAttempt ELSE context.attempt
      maxAttempts == IF context.maxAttempts = 0 THEN DefaultMaxAttempts ELSE context.maxAttempts
  IN  attempt <= maxAttempts

canRetry(context) ==
  LET attempt == IF context.attempt = 0 THEN DefaultAttempt ELSE context.attempt
      maxAttempts == IF context.maxAttempts = 0 THEN DefaultMaxAttempts ELSE context.maxAttempts
  IN  attempt < maxAttempts

(* scheduleRetry waits and logs; it triggers nothing. *)
scheduleRetry(context) ==
  LET attempt == IF context.attempt = 0 THEN DefaultAttempt ELSE context.attempt
  IN  <<Ev("scheduleRetry", context.operation, "waited", attempt + 1, <<>>)>>

(* console.error('Failed to log error to database:', logError) *)
logFailure == Ev("console", "error", "Failed to log error to database", 0, <<>>)

(* A handleError whose insert is not guarded: a failing insert escapes. *)
logToDatabaseUnguarded(error, type, context, sink) ==
  [threw |-> sink # "ok",
   tr |-> IF sink = "null" THEN <<>>
          ELSE <<Ev("insert", "error_logs", IF sink = "ok" THEN "ok" ELSE "threw", 0, error.message)>>]

(* The insert into error_logs, inside handleError's own try/catch: the row *)
(* is written (sink "ok"), the insert throws (sink "fails"), or there is   *)
(* no data-store service attached (sink "null", a TypeError).  The catch   *)
(* block writes the failure to the console; the insert never makes         *)
(* handleError throw.                                                      *)
logToDatabase(error, type, context, sink) ==
  [threw |-> FALSE,
   tr |-> IF sink = "null" THEN <<logFailure>>
          ELSE IF sink = "ok" THEN <<Ev("insert", "error_logs", "ok", 0, error.message)>>
          ELSE <<Ev("insert", "error_logs", "threw", 0, error.message), logFailure>>]

insertError == [message |-> <<"i", "n", "s", "e", "r", "t">>]

(* A handleError that lets the failure of its insert escape. *)
handleErrorRethrowing(error, type, context, sink) ==
  LET call == <<Ev("handleError", context.operation, type, 0, error.message)>>
      log == logToDatabaseUnguarded(error, type, context, sink)
  IN  IF log.threw THEN R(TRUE, insertError, call \o log.tr)
      ELSE IF isTransientError(type, error) /\ context.given /\ canRetry(context)
      THEN R(FALSE, Undefined, call \o log.tr \o scheduleRetry(context))
      ELSE R(FALSE, Undefined, call \o log.tr)

handleError(error, type, context, sink) ==
  LET call == <<Ev("handleError", context.operation, type, 0, error.message)>>
      log == logToDatabase(error, type, context, sink)
  IN  IF log.threw THEN R(TRUE, insertError, call \o log.tr)
      ELSE IF isTransientError(type, error) /\ context.given /\ canRetry(context)
      THEN R(FALSE, Undefined, call \o log.tr \o scheduleRetry(context))
      ELSE R(FALSE, Undefined, call \o log.tr)

(* A catch block that reports the error and throws it on. *)
rethrown(tr, h, fallback) == R(TRUE, h.val, tr \o h.tr)

(* catch (error) { await handleError(...); return fallback }: the value    *)
(* the catch block returns, unless handleError itself throws.              *)
caught(tr, h, fallback) ==
  IF h.threw THEN R(TRUE, h.val, tr \o h.tr) ELSE R(FALSE, fallback, tr \o h.tr)

(* try { body } catch (error) { await handleError(error, type,             *)
(* {operation}); return fallback }                                         *)
TryCatch(body, type, operation, sink, fallback) ==
  IF body.threw
  THEN caught(body.tr, handleError(body.val, type, Ctx(operation), sink), fallback)
  ELSE body

(* const v = await first; ...Rest(v): Rest runs when first did not throw,  *)
(* and its requests follow those of first.                                 *)
Await(first, Rest(_)) ==
  IF first.threw THEN first
  ELSE LET rest == Rest(first.val)
       IN  R(rest.threw, rest.val, first.tr \o rest.tr)

typeError == [message |-> <<"T", "y", "p", "e", "E", "r", "r", "o", "r">>]

(* Code that makes no request: it throws a TypeError or has the value val. *)
Sync(threw, val) == R(threw, IF threw THEN typeError ELSE val, <<>>)

(* A call of the vector-memory client by the context builder. *)
Called(name, n, r) ==
  R(r.threw, r.val, <<Ev("qdrant", name, "called", n, <<>>)>> \o r.tr)

-----------------------------------------------------------------------------
(* QdrantService *)

(* The environment of a call, env:                                         *)
(*   sink        "ok" | "fails" | "null": the insert into error_logs       *)
(*   down        "none" | "embed" | "search": a backend failing every call *)
(*   embedFail   the texts whose embedding request fails                   *)
(*   searchFail  the texts whose vector search fails                       *)
(*   byQuery     query text -> the points nearest to it, nearest first     *)
(*   other       the points nearest to any other text or vector            *)
(*   picks       the indices drawn by the shuffle, picks[i] \in 0..i       *)
(*   now         today's day number                                        *)
(* A point is [id, payload: [content, tags, timestamp, type,               *)
(* alignment_score]]; a field left out is Undefined (id, type), the empty  *)
(* sequence (tags, timestamp) or 0 (alignment_score).                      *)

PrefixLen == 100

DefaultAlignment == 7

FreshId == "uuidv4"

NowIso == <<9, 9>>

embedFails(env, text) == env.down = "embed" \/ text \in env.embedFail

searchFails(env, text) == env.down = "search" \/ text \in env.searchFail

pointsFor(env, text) ==
  IF text \in DOMAIN env.byQuery THEN env.byQuery[text] ELSE env.other

Take(s, n) == SubSeq(s, 1, Min(n, Len(s)))

embedError == [message |-> <<"4", "2", "9", " ", "R", "a", "t", "e", " ", "l", "i", "m", "i", "t">>]

searchError == [message |-> <<"E", "C", "O", "N", "N", "R", "E", "F", "U", "S", "E", "D">>]

generateEmbedding(text, env) ==
  LET req == <<Ev("embed", "embeddings", IF embedFails(env, text) THEN "threw" ELSE "ok", 0, text)>>
  IN  IF embedFails(env, text)
      THEN LET h == handleError(embedError, "api_failure", Ctx("generateEmbedding"), env.sink)
           IN  R(TRUE, IF h.threw THEN h.val ELSE embedError, req \o h.tr)
      ELSE R(FALSE, text, req)

(* item => ({content, tags: tags || [], timestamp: timestamp || now}) *)
toInsight(item) ==
  [content |-> item.payload.content,
   tags |-> item.payload.tags,
   timestamp |-> IF item.payload.timestamp = <<>> THEN NowIso ELSE item.payload.timestamp]

(* The mapping of getRandomMemories and getRecentMemories. *)
toFullInsight(item) ==
  [id |-> IF item.id = Undefined THEN FreshId ELSE item.id,
   content |-> item.payload.content,
   tags |-> item.payload.tags,
   timestamp |-> IF item.payload.timestamp = <<>> THEN NowIso ELSE item.payload.timestamp,
   type |-> IF item.payload.type = Undefined THEN "unknown" ELSE item.payload.type,
   alignment_score |-> IF item.payload.alignment_score = 0 THEN DefaultAlignment
                       ELSE item.payload.alignment_score]

(* A searchMemories that sends the search request although the embedding   *)
(* failed.                                                                 *)
searchMemoriesRegardless(query, limit, env) ==
  LET e == generateEmbedding(query, env)
      req == <<Ev("search", "points/search", IF searchFails(env, query) THEN "threw" ELSE "ok", limit, query)>>
  IN  IF e.threw \/ searchFails(env, query)
      THEN caught(e.tr \o req,
                  handleError(IF e.threw THEN e.val ELSE searchError, "memory_error",
                              Ctx("searchMemories"), env.sink),
                  <<>>)
      ELSE LET result == Take(pointsFor(env, query), limit)
           IN  R(FALSE, [i \in 1..Len(result) |-> toInsight(result[i])], e.tr \o req)

searchMemories(query, limit, env) ==
  LET e == generateEmbedding(query, env)
      req == <<Ev("search", "points/search", IF searchFails(env, query) THEN "threw" ELSE "ok", limit, query)>>
  IN  IF e.threw
      THEN caught(e.tr,
                  handleError(e.val, "memory_error", Ctx("searchMemories"), env.sink),
                  <<>>)
      ELSE IF searchFails(env, query)
      THEN caught(e.tr \o req,
                  handleError(searchError, "memory_error", Ctx("searchMemories"), env.sink),
                  <<>>)
      ELSE LET result == Take(pointsFor(env, query), limit)
           IN  R(FALSE, [i \in 1..Len(result) |-> toInsight(result[i])], e.tr \o req)

(* memories.filter(...) with the Set of the keys seen so far *)
RECURSIVE dedupFrom(_, _)
dedupFrom(memories, seen) ==
  IF memories = <<>> THEN <<>>
  ELSE LET key == substring(Head(memories).content, 0, PrefixLen)
       IN  IF key \in seen THEN dedupFrom(Tail(memories), seen)
           ELSE <<Head(memories)>> \o dedupFrom(Tail(memories), seen \cup {key})

(* A deduplication that keeps the last of each group instead of the first. *)
RECURSIVE dedupKeepLast(_)
dedupKeepLast(memories) ==
  IF memories = <<>> THEN <<>>
  ELSE LET key == substring(Head(memories).content, 0, PrefixLen)
       IN  IF \E i \in 2..Len(memories) : substring(memories[i].content, 0, PrefixLen) = key
           THEN dedupKeepLast(Tail(memories))
           ELSE <<Head(memories)>> \o dedupKeepLast(Tail(memories))

deduplicateMemories(memories) == dedupFrom(memories, {})

(* Promise.all over the per-query searches: the results in query order,    *)
(* or the first rejection.                                                 *)
RECURSIVE searchAll(_, _, _)
searchAll(queries, limit, env) ==
  IF queries = <<>> THEN R(FALSE, <<>>, <<>>)
  ELSE LET first == searchMemories(Head(queries), limit, env)
           rest == searchAll(Tail(queries), limit, env)
       IN  R(first.threw \/ rest.threw,
             IF first.threw THEN first.val
             ELSE IF rest.threw THEN rest.val
             ELSE <<first.val>> \o rest.val,
             first.tr \o rest.tr)

DefaultPerQueryLimit == 3

searchMultipleQueries(queries, limit, env) ==
  LET results == searchAll(queries, limit, env)
  IN  IF results.threw
      THEN caught(results.tr,
                  handleError(results.val, "memory_error", Ctx("searchMultipleQueries"), env.sink),
                  <<>>)
      ELSE R(FALSE, deduplicateMemories(Flatten(results.val)), results.tr)

(* A join that hands the results over in the order the searches finished. *)
promiseAllByCompletion(results, completed) ==
  [i \in 1..Len(completed) |-> results[completed[i]]]

(* await Promise.all(resultsPromises), all promises fulfilled: the values  *)
(* in the order of the promises, whatever the order they settled in.       *)
promiseAll(results, completed) == results

(* The vector getRandomMemories searches with, and the scroll request of   *)
(* getRecentMemories, as keys of byQuery and searchFail.                   *)
RandomVector == <<"<random vector>">>

ScrollAll == <<"<scroll>">>

Swap(s, a, b) == [s EXCEPT ![a] = s[b], ![b] = s[a]]

(* Fisher-Yates: for (i = length - 1; i > 0; i--) swap(result[i],          *)
(* result[j]) with j = floor(random() * (i + 1)) = picks[i]; indices from  *)
(* 0 in the source, from 1 here.                                           *)
RECURSIVE shuffleFrom(_, _, _)
shuffleFrom(result, i, picks) ==
  IF i <= 0 THEN result
  ELSE shuffleFrom(Swap(result, i + 1, picks[i] + 1), i - 1, picks)

shuffleArray(array, picks) == shuffleFrom(array, Len(array) - 1, picks)

OverFetch == 5

getRandomMemories(count, env) ==
  LET failed == searchFails(env, RandomVector)
      req == <<Ev("search", "points/search", IF failed THEN "threw" ELSE "ok", count * OverFetch, RandomVector)>>
  IN  IF failed
      THEN caught(req,
                  handleError(searchError, "memory_error", Ctx("getRandomMemories"), env.sink),
                  <<>>)
      ELSE LET result == Take(pointsFor(env, RandomVector), count * OverFetch)
               selectedResults == Take(shuffleArray(result, env.picks), count)
           IN  R(FALSE,
                 [i \in 1..Len(selectedResults) |-> toFullInsight(selectedResults[i])],
                 req)

(* toISOString of a day number: two decimal digits. *)
Iso(day) == <<day \div 10, day % 10>>

(* a < b in code-unit order *)
RECURSIVE LexLess(_, _)
LexLess(a, b) ==
  IF b = <<>> THEN FALSE
  ELSE IF a = <<>> THEN TRUE
  ELSE IF Head(a) # Head(b) THEN Head(a) < Head(b)
  ELSE LexLess(Tail(a), Tail(b))

(* insertion of item into a list sorted newest first, after its equals     *)
(* (Array.prototype.sort is stable)                                        *)
RECURSIVE insertNewestFirst(_, _)
insertNewestFirst(item, sorted) ==
  IF sorted = <<>> THEN <<item>>
  ELSE IF LexLess(Head(sorted).payload.timestamp, item.payload.timestamp)
       THEN <<item>> \o sorted
       ELSE <<Head(sorted)>> \o insertNewestFirst(item, Tail(sorted))

RECURSIVE sortNewestFirst(_)
sortNewestFirst(items) ==
  IF items = <<>> THEN <<>>
  ELSE insertNewestFirst(items[Len(items)], sortNewestFirst(SubSeq(items, 1, Len(items) - 1)))

SuperSet == 2

getRecentMemories(days, limit, env) ==
  LET failed == searchFails(env, ScrollAll)
      req == <<Ev("scroll", "points/scroll", IF failed THEN "threw" ELSE "ok", limit * SuperSet, ScrollAll)>>
  IN  IF failed
      THEN caught(req,
                  handleError(searchError, "memory_error", Ctx("getRecentMemories"), env.sink),
                  <<>>)
      ELSE LET daysAgoIso == Iso(env.now - days)
               result == Take(pointsFor(env, ScrollAll), limit * SuperSet)
               filteredResults ==
                 SelectSeq(result, LAMBDA item :
                   item.payload.timestamp # <<>> /\ ~LexLess(item.payload.timestamp, daysAgoIso))
               selectedResults == Take(sortNewestFirst(filteredResults), limit)
           IN  R(FALSE,
                 [i \in 1..Len(selectedResults) |-> toFullInsight(selectedResults[i])],
                 req)

(* {...memory, id: memory.id || uuidv4(), type: ..., alignment_score: ...} *)
withDefaults(memory) ==
  [id |-> FreshId, content |-> memory.content, tags |-> memory.tags,
   timestamp |-> memory.timestamp, type |-> "unknown", alignment_score |-> DefaultAlignment]

getMemoriesByTags(tags, limit, env) ==
  IF tags = <<>> THEN R(FALSE, <<>>, <<>>)
  ELSE LET memories == searchMemories(join(tags, CommaSpace), limit, env)
       IN  IF memories.threw
           THEN caught(memories.tr,
                       handleError(memories.val, "memory_error", Ctx("getMemoriesByTags"), env.sink),
                       <<>>)
           ELSE R(FALSE,
                  [i \in 1..Len(memories.val) |-> withDefaults(memories.val[i])],
                  memories.tr)

-----------------------------------------------------------------------------
(* ContextBuilder *)

(* Further fields of env:                                                  *)
(*   failing     the select call sites that throw                          *)
(*   tweetStore  the rows of tweets_cache, as the store returns them       *)
(*   imageStore  the rows of images                                        *)
(*   promptStore the rows of prompts                                       *)
(*   characters  the active character_files rows of agent marvin           *)
(*   rnd         floor(Math.random() * imageIds.length)                    *)

Sites == {"getLatestTweets", "getTweetsByTags", "imageIds", "imageById", "prompts", "character_files"}

selectError ==
  [message |-> <<"F", "a", "i", "l", "e", "d", " ", "t", "o", " ", "s", "e", "l", "e", "c", "t",
                 ":", " ", "c", "o", "n", "n", "e", "c", "t", "i", "o", "n">>]

(* supabaseService.select(table, columns, match) at one call site: the     *)
(* rows the store answers with, or a throw.  n is the limit the caller     *)
(* passes in match; the answer is the store's and is not cut to it here.   *)
select(site, table, n, rows, env) ==
  IF site \in env.failing
  THEN R(TRUE, selectError, <<Ev("select", site, "threw", n, <<>>)>>)
  ELSE R(FALSE, rows, <<Ev("select", site, "ok", n, <<>>)>>)

Field(r, f, missing) == IF f \in DOMAIN r THEN r[f] ELSE missing

(* tweet => ({id: tweet.tweet_id, text: tweet.tweet_text, url:             *)
(* tweet.tweet_url, created_at: tweet.created_at, vibe_tags:               *)
(* tweet.vibe_tags || []})                                                 *)
toTweet(tweet) ==
  [id |-> Field(tweet, "tweet_id", Undefined),
   text |-> Field(tweet, "tweet_text", NotAString),
   url |-> Field(tweet, "tweet_url", Undefined),
   created_at |-> Field(tweet, "created_at", Undefined),
   vibe_tags |-> Field(tweet, "vibe_tags", <<>>)]

DefaultTweetLimit == 5

getLatestTweets(limit, env) ==
  TryCatch(
    Await(select("getLatestTweets", "tweets_cache", limit, env.tweetStore, env),
          LAMBDA tweets : R(FALSE, [i \in 1..Len(tweets) |-> toTweet(tweets[i])], <<>>)),
    "database_error", "getLatestTweets", env.sink, <<>>)

(* The rows of a given id.  The by-id selects hand select the object      *)
(* {match: {id}} as its match; the store is taken to answer them with the  *)
(* rows of that id.                                                        *)
whereId(rows, id) == SelectSeq(rows, LAMBDA row : row.id = id)

NoImage == [defined |-> FALSE, url |-> Undefined, prompt |-> <<>>]

(* The try block of getLatestImage: the ids, one of them drawn at random,  *)
(* the image of that id, the prompt of that image.                         *)
getLatestImageBody(env) ==
  Await(select("imageIds", "images", 0, env.imageStore, env), LAMBDA imageIds :
    IF Len(imageIds) = 0 THEN R(FALSE, NoImage, <<>>) ELSE
  Await(select("imageById", "images", 0,
               whereId(env.imageStore, imageIds[env.rnd + 1].id), env),
        LAMBDA images :
    IF Len(images) = 0 THEN R(FALSE, NoImage, <<>>)
    ELSE IF images[1].prompt_id = Undefined
    THEN R(FALSE, [defined |-> TRUE, url |-> images[1].image_url, prompt |-> <<>>], <<>>) ELSE
  Await(select("prompts", "prompts", 0,
               whereId(env.promptStore, images[1].prompt_id), env),
        LAMBDA prompts :
    R(FALSE,
      [defined |-> TRUE, url |-> images[1].image_url,
       prompt |-> IF Len(prompts) > 0 THEN prompts[1].text ELSE <<>>],
      <<>>))))

(* A getLatestImage without its catch block. *)
getLatestImageUnguarded(env) == getLatestImageBody(env)

getLatestImage(env) ==
  TryCatch(getLatestImageBody(env), "database_error", "getLatestImage", env.sink, NoImage)

NeutralTone == "neutral"

DefaultTone == "philosophical"

(* A character content: null, or an object whose tone and personality are  *)
(* strings, "" when left out.                                              *)
NullCharacter == [null |-> TRUE, tone |-> "", personality |-> ""]

(* The tone as stored, with no default. *)
toneAsStored(content) == content.tone

(* content?.tone || content?.personality || 'philosophical' *)
toneOf(content) ==
  IF content.null THEN DefaultTone
  ELSE IF content.tone # "" THEN content.tone
  ELSE IF content.personality # "" THEN content.personality
  ELSE DefaultTone

getCharacterInfo(env) ==
  TryCatch(
    Await(select("character_files", "character_files", 0, env.characters, env),
          LAMBDA characters :
            IF Len(characters) = 0
            THEN R(FALSE, [tone |-> DefaultTone, character |-> NullCharacter], <<>>)
            ELSE R(FALSE,
                   [tone |-> toneOf(characters[1].content),
                    character |-> characters[1].content],
                   <<>>)),
    "database_error", "getCharacterInfo", env.sink,
    [tone |-> DefaultTone, character |-> NullCharacter])

(* The queries of getMemoryInsights: the tweet texts, the image prompt,    *)
(* the vibe tags joined.                                                   *)
memoryQueries(tweets, image) ==
  LET texts == SelectSeq([i \in 1..Len(tweets) |-> tweets[i].text],
                         LAMBDA text : text # <<>> /\ IsString(text))
      prompt == IF image.defined /\ image.prompt # <<>> THEN <<image.prompt>> ELSE <<>>
      vibeTags == vibeTagsOf(tweets)
      joined == IF Len(vibeTags) > 0 THEN <<join(vibeTags, CommaSpace)>> ELSE <<>>
  IN  texts \o prompt \o joined

searchInsights(queries, env) ==
  TryCatch(
    Called("searchMultipleQueries", Len(queries),
           searchMultipleQueries(queries, DefaultPerQueryLimit, env)),
    "memory_error", "getMemoryInsights", env.sink, <<>>)

(* A getMemoryInsights without the check for an empty query list. *)
getMemoryInsightsUnchecked(tweets, image, env) ==
  searchInsights(memoryQueries(tweets, image), env)

getMemoryInsights(tweets, image, env) ==
  IF Len(memoryQueries(tweets, image)) = 0 THEN R(FALSE, <<>>, <<>>)
  ELSE searchInsights(memoryQueries(tweets, image), env)

createFallbackContext ==
  [tweets |-> <<>>, image |-> NoImage, memoryInsights |-> <<>>,
   tone |-> "philosophical", category |-> "philosophy", character |-> NullCharacter]

Context(tweets, image, memoryInsights, tone, category, character) ==
  [tweets |-> tweets, image |-> image, memoryInsights |-> memoryInsights,
   tone |-> tone, category |-> category, character |-> character]

(* A category inference as an outcome. *)
Inferred(c) == Sync(c.threw, c.val)

(* The try block of buildContext. *)
buildContextBody(env) ==
  Await(getLatestTweets(DefaultTweetLimit, env), LAMBDA tweets :
  Await(getLatestImage(env), LAMBDA image :
  Await(getCharacterInfo(env), LAMBDA info :
  Await(getMemoryInsights(tweets, image, env), LAMBDA memoryInsights :
  Await(Inferred(determineCategory(tweets, memoryInsights)), LAMBDA category :
    R(FALSE,
      Context(tweets, image, memoryInsights, info.tone, category, info.character),
      <<>>))))))

buildContext(env) ==
  TryCatch(buildContextBody(env), "unknown", "buildContext", env.sink, createFallbackContext)

(* tweetTags.some(tweetTag => tweetTag.toLowerCase().includes(             *)
(* tag.toLowerCase())): "true", "false", or "threw" on a value that is not *)
(* a string.                                                               *)
RECURSIVE someTweetTag(_, _)
someTweetTag(tweetTags, tag) ==
  IF tweetTags = <<>> THEN "false"
  ELSE IF ~IsString(Head(tweetTags)) \/ ~IsString(tag) THEN "threw"
  ELSE IF includes(toLowerCase(Head(tweetTags)), toLowerCase(tag)) THEN "true"
  ELSE someTweetTag(Tail(tweetTags), tag)

(* tags.some(tag => tweetTags.some(...)) *)
RECURSIVE someTag(_, _)
someTag(tags, tweetTags) ==
  IF tags = <<>> THEN "false"
  ELSE LET r == someTweetTag(tweetTags, Head(tags))
       IN  IF r = "false" THEN someTag(Tail(tags), tweetTags) ELSE r

(* allTweets.filter(...): [threw, rows] *)
RECURSIVE filterByTags(_, _)
filterByTags(allTweets, tags) ==
  IF allTweets = <<>> THEN [threw |-> FALSE, rows |-> <<>>]
  ELSE LET r == someTag(tags, Field(Head(allTweets), "vibe_tags", <<>>))
           rest == filterByTags(Tail(allTweets), tags)
       IN  IF r = "threw" THEN [threw |-> TRUE, rows |-> <<>>]
           ELSE IF rest.threw THEN rest
           ELSE IF r = "true" THEN [threw |-> FALSE, rows |-> <<Head(allTweets)>> \o rest.rows]
           ELSE rest

Filtered(f) == Sync(f.threw, f.rows)

FetchFactor == 5

(* if (selectedTweets.length < limit) selectedTweets.push(...await         *)
(* getLatestTweets(limit - selectedTweets.length))                         *)
topUp(selectedTweets, limit, env) ==
  IF Len(selectedTweets) < limit
  THEN Await(getLatestTweets(limit - Len(selectedTweets), env),
             LAMBDA additionalTweets : R(FALSE, selectedTweets \o additionalTweets, <<>>))
  ELSE R(FALSE, selectedTweets, <<>>)

getTweetsByTags(tags, limit, env) ==
  IF Len(tags) = 0 THEN getLatestTweets(limit, env)
  ELSE
  TryCatch(
    Await(select("getTweetsByTags", "tweets_cache", limit * FetchFactor, env.tweetStore, env),
          LAMBDA allTweets :
    Await(Filtered(filterByTags(allTweets, tags)), LAMBDA filteredTweets :
    Await(topUp(Take(filteredTweets, limit), limit, env), LAMBDA selectedTweets :
      R(FALSE, [i \in 1..Len(selectedTweets) |-> toTweet(selectedTweets[i])], <<>>)))),
    "database_error", "getTweetsByTags", env.sink, <<>>)

FallbackTweetLimit == 3

(* memoryTags.length > 0 ? await getTweetsByTags(memoryTags)               *)
(*                       : await getLatestTweets(3)                        *)
tweetsFor(memoryTags, env) ==
  IF Len(memoryTags) > 0
  THEN getTweetsByTags(memoryTags, DefaultTweetLimit, env)
  ELSE getLatestTweets(FallbackTweetLimit, env)

(* A memory-led build that infers the category as the tweet-led one does,  *)
(* from the tags of the posts and of the memories.                         *)
buildFromMemoriesByPosts(memoryInsights, env) ==
  Await(getLatestImage(env), LAMBDA image :
  Await(getCharacterInfo(env), LAMBDA info :
  Await(tweetsFor(memoryTagsOf(memoryInsights), env), LAMBDA tweets :
  Await(Inferred(determineCategory(tweets, memoryInsights)), LAMBDA category :
    R(FALSE,
      Context(tweets, image, memoryInsights, info.tone, category, info.character),
      <<>>)))))

(* The try block of buildContextFromMemory once memories were found. *)
buildFromMemoriesBody(memoryInsights, env) ==
  Await(getLatestImage(env), LAMBDA image :
  Await(getCharacterInfo(env), LAMBDA info :
  Await(tweetsFor(memoryTagsOf(memoryInsights), env), LAMBDA tweets :
  Await(Inferred(determineCategoryFromMemories(memoryInsights)), LAMBDA category :
    R(FALSE,
      Context(tweets, image, memoryInsights, info.tone, category, info.character),
      <<>>)))))

(* The downgrade that answers with the all-defaults context instead of     *)
(* running the tweet-led strategy.                                         *)
downgradeToFallback(env) == R(FALSE, createFallbackContext, <<>>)

(* return this.buildContext() when no memory was found *)
downgrade(env) == buildContext(env)

(* What the try block hands over when it returns the promise of            *)
(* buildContext: that promise settles outside the try block.               *)
Downgrade == [downgrade |-> TRUE]

buildContextFromMemory(memoryCount, env) ==
  Await(
    TryCatch(
      Await(Called("getRandomMemories", memoryCount, getRandomMemories(memoryCount, env)),
            LAMBDA memoryInsights :
              IF Len(memoryInsights) = 0 THEN R(FALSE, Downgrade, <<>>)
              ELSE buildFromMemoriesBody(memoryInsights, env)),
      "unknown", "buildContextFromMemory", env.sink, createFallbackContext),
    LAMBDA context :
      IF context = Downgrade THEN downgrade(env) ELSE R(FALSE, context, <<>>))

-----------------------------------------------------------------------------
(* PublisherAdapter *)

(* The environment of a save, the fields of env:                           *)
(*   wordpressEnabled  the flag the constructor computed                   *)
(*   save       what blog_posts answers the insert or update with: its     *)
(*              rows ("ok"), no data ("null"), or an error ("fails")       *)
(*   newId      the id the store gives an inserted row                     *)
(*   upload     the media upload of WordPress: "ok" or "fails"             *)
(*   wp         the posts endpoint of WordPress: answers with a link       *)
(*              ("link"), without one ("nolink"), or fails ("fails")       *)
(*   urlUpdate  the update of post_url: "ok" or "fails"                    *)
(*   sink       the error_logs service of the error handler                *)

(* A BlogPost object.  version 0 stands for a version left out             *)
(* (blogPost.version || 1 treats both alike).                              *)
Post(id, status, version, image_url) ==
  [isArray |-> FALSE, rows |-> <<>>, id |-> id, title |-> "Test Blog Post",
   markdown |-> "md", html |-> Undefined, image_url |-> image_url,
   status |-> status, version |-> version, post_url |-> Undefined]

(* The array of rows that supabaseService.update resolves to: as a post    *)
(* it has no id, no title, no markdown and no html.                        *)
ArrayOf(rows) ==
  [isArray |-> TRUE, rows |-> rows, id |-> Undefined, title |-> Undefined,
   markdown |-> Undefined, html |-> Undefined, image_url |-> Undefined,
   status |-> Undefined, version |-> 0, post_url |-> Undefined]

dbError ==
  [message |-> <<"D", "a", "t", "a", "b", "a", "s", "e", " ", "e", "r", "r", "o", "r">>]

wpError ==
  [message |-> <<"W", "o", "r", "d", "P", "r", "e", "s", "s", " ", "A", "P", "I", " ",
                 "e", "r", "r", "o", "r">>]

WordPressLink == "https://example.com/wp/blog/test-blog-post"

(* try { body } catch (error) { await handleError(error, type,             *)
(* {operation}); throw error }                                             *)
TryRethrow(body, type, operation, sink) ==
  IF body.threw
  THEN LET h == handleError(body.val, type, Ctx(operation), sink)
       IN  R(TRUE, IF h.threw THEN h.val ELSE body.val, body.tr \o h.tr)
  ELSE body

(* The null a service method resolves to when the store returns no data *)
NoRow == [null |-> TRUE]

(* supabaseService.insert(table, data): result?.[0] || null *)
insert(table, data, env) ==
  IF env.save = "fails"
  THEN R(TRUE, dbError, <<Ev("insert", table, "threw", 0, [data |-> data])>>)
  ELSE R(FALSE,
         IF env.save = "null" THEN NoRow ELSE [data EXCEPT !.id = env.newId],
         <<Ev("insert", table, "ok", 0, [data |-> data])>>)

(* supabaseService.update(table, data, match): result || null, where       *)
(* result is the array of the rows updated                                 *)
update(table, data, match, env) ==
  IF env.save = "fails"
  THEN R(TRUE, dbError, <<Ev("update", table, "threw", 0, [data |-> data, match |-> match])>>)
  ELSE R(FALSE,
         IF env.save = "null" THEN NoRow ELSE ArrayOf(<<data>>),
         <<Ev("update", table, "ok", 0, [data |-> data, match |-> match])>>)

(* (blogPost.version || 1) + 1 *)
nextVersion(version) == (IF version = 0 THEN 1 ELSE version) + 1

(* A save that updates without incrementing the version. *)
saveToDatabaseSameVersion(blogPost, env) ==
  TryRethrow(
    IF blogPost.id # Undefined
    THEN Await(update("blog_posts", blogPost, [id |-> blogPost.id], env),
               LAMBDA updated : R(FALSE, IF updated = NoRow THEN blogPost ELSE updated, <<>>))
    ELSE Await(insert("blog_posts", blogPost, env),
               LAMBDA inserted : R(FALSE, IF inserted = NoRow THEN blogPost ELSE inserted, <<>>)),
    "database_error", "saveToDatabase", env.sink)

saveToDatabase(blogPost, env) ==
  TryRethrow(
    IF blogPost.id # Undefined
    THEN Await(update("blog_posts", [blogPost EXCEPT !.version = nextVersion(@)],
                      [id |-> blogPost.id], env),
               LAMBDA updated :
                 R(FALSE,
                   IF updated = NoRow THEN [blogPost EXCEPT !.version = nextVersion(@)]
                   ELSE updated,
                   <<>>))
    ELSE Await(insert("blog_posts", blogPost, env),
               LAMBDA inserted : R(FALSE, IF inserted = NoRow THEN blogPost ELSE inserted, <<>>)),
    "database_error", "saveToDatabase", env.sink)

(* uploadFeaturedImage: the media id, 0 when the upload fails *)
uploadFeaturedImage(imageUrl, env) ==
  TryCatch(
    IF env.upload = "fails"
    THEN R(TRUE, wpError, <<Ev("wordpress", "media", "threw", 0, imageUrl)>>)
    ELSE R(FALSE, 7, <<Ev("wordpress", "media", "ok", 0, imageUrl)>>),
    "api_failure", "uploadFeaturedImage", env.sink, 0)

(* axios.post(`${wordpressUrl}/wp-json/wp/v2/posts`, postData, ...) and    *)
(* response.data.link || null                                              *)
postToWordPress(title, media, env) ==
  IF env.wp = "fails"
  THEN R(TRUE, wpError, <<Ev("wordpress", "posts", "threw", media, title)>>)
  ELSE R(FALSE, IF env.wp = "link" THEN WordPressLink ELSE Null,
         <<Ev("wordpress", "posts", "ok", media, title)>>)

(* The try block of publishToWordPress.  The content of the request is     *)
(* blogPost.html || convertMarkdownToHtml(blogPost.markdown), a TypeError  *)
(* when the post has neither.                                              *)
publishBody(blogPost, env) ==
  IF blogPost.html = Undefined /\ blogPost.markdown = Undefined THEN R(TRUE, typeError, <<>>)
  ELSE
  Await(IF blogPost.image_url # Undefined THEN uploadFeaturedImage(blogPost.image_url, env)
        ELSE R(FALSE, 0, <<>>),
        LAMBDA media : postToWordPress(blogPost.title, media, env))

(* A publishToWordPress that reports a failure and answers null. *)
publishToWordPressSwallowing(blogPost, env) ==
  TryCatch(publishBody(blogPost, env), "api_failure", "publishToWordPress", env.sink, Null)

publishToWordPress(blogPost, env) ==
  TryRethrow(publishBody(blogPost, env), "api_failure", "publishToWordPress", env.sink)

(* updatePostUrl(id, url): a failure is reported and not thrown *)
updatePostUrl(id, url, env) ==
  TryCatch(
    IF env.urlUpdate = "fails"
    THEN R(TRUE, dbError,
           <<Ev("update", "blog_posts", "threw", 0, [data |-> [post_url |-> url], match |-> [id |-> id]])>>)
    ELSE R(FALSE, Undefined,
           <<Ev("update", "blog_posts", "ok", 0, [data |-> [post_url |-> url], match |-> [id |-> id]])>>),
    "database_error", "updatePostUrl", env.sink, Undefined)

(* A publisher that sends every saved post to WordPress. *)
shouldPublishAlways(wordpressEnabled, status) == TRUE

(* this.wordpressEnabled && blogPost.status === 'published' *)
shouldPublish(wordpressEnabled, status) == wordpressEnabled /\ status = "published"

(* The try block of saveAndPublish *)
saveAndPublishBody(blogPost, env) ==
  Await(saveToDatabase(blogPost, env), LAMBDA savedPost :
    IF ~shouldPublish(env.wordpressEnabled, blogPost.status) THEN R(FALSE, savedPost, <<>>)
    ELSE
  Await(publishToWordPress(savedPost, env), LAMBDA postUrl :
    IF postUrl = Null THEN R(FALSE, savedPost, <<>>)
    ELSE
  Await(updatePostUrl(savedPost.id, postUrl, env), LAMBDA done :
    R(FALSE, [savedPost EXCEPT !.post_url = postUrl], <<>>))))

saveAndPublish(blogPost, env) ==
  TryRethrow(saveAndPublishBody(blogPost, env), "database_error", "saveAndPublish", env.sink)

-----------------------------------------------------------------------------
(* MetadataBuilder *)

(* The environment of a call, the fields of env used here:                 *)
(*   characters  the rows of character_files the select answers with       *)
(*   failing     the select sites that throw ("getCharacterId")            *)
(*   sink        the insert into error_logs                                *)

Digits == <<"0", "1", "2", "3", "4", "5", "6", "7", "8", "9">>

NewLine == "\n"

(* \s *)
isSpace(c) == c \in {" ", "\t", NewLine}

(* \w *)
isWordChar(c) ==
  \/ \E i \in 1..Len(Upper) : Upper[i] = c
  \/ \E i \in 1..Len(Lower) : Lower[i] = c
  \/ \E i \in 1..Len(Digits) : Digits[i] = c
  \/ c = "_"

(* s.split(/\W+/) from position i on: cur is the piece being read,         *)
(* afterSep says that the character before was a separator.  A separator  *)
(* at either end leaves an empty piece there, as in JavaScript.            *)
RECURSIVE splitFrom(_, _, _, _)
splitFrom(s, i, cur, afterSep) ==
  IF i > Len(s) THEN <<cur>>
  ELSE IF isWordChar(s[i]) THEN splitFrom(s, i + 1, Append(cur, s[i]), FALSE)
  ELSE IF afterSep THEN splitFrom(s, i + 1, cur, TRUE)
  ELSE <<cur>> \o splitFrom(s, i + 1, <<>>, TRUE)

splitWords(s) == splitFrom(s, 1, <<>>, FALSE)

stopWords ==
  {<<"a">>, <<"a", "n">>, <<"t", "h", "e">>, <<"a", "n", "d">>,
   <<"o", "r">>, <<"b", "u", "t">>, <<"i", "n">>, <<"o", "n">>,
   <<"a", "t">>, <<"t", "o">>, <<"f", "o", "r">>, <<"w", "i", "t", "h">>,
   <<"a", "b", "o", "u", "t">>, <<"f", "r", "o", "m">>, <<"b", "y">>,
   <<"a", "s">>, <<"o", "f">>, <<"i", "s">>, <<"a", "r", "e">>,
   <<"w", "a", "s">>, <<"w", "e", "r", "e">>, <<"b", "e">>,
   <<"b", "e", "e", "n">>, <<"b", "e", "i", "n", "g">>,
   <<"h", "a", "v", "e">>, <<"h", "a", "s">>, <<"h", "a", "d">>,
   <<"d", "o">>, <<"d", "o", "e", "s">>, <<"d", "i", "d">>,
   <<"w", "i", "l", "l">>, <<"w", "o", "u", "l", "d">>,
   <<"s", "h", "a", "l", "l">>, <<"s", "h", "o", "u", "l", "d">>,
   <<"c", "a", "n">>, <<"c", "o", "u", "l", "d">>, <<"m", "a", "y">>,
   <<"m", "i", "g", "h", "t">>, <<"m", "u", "s", "t">>,
   <<"t", "h", "a", "t">>, <<"t", "h", "i", "s">>,
   <<"t", "h", "e", "s", "e">>, <<"t", "h", "o", "s", "e">>, <<"i">>,
   <<"y", "o", "u">>, <<"h", "e">>, <<"s", "h", "e">>, <<"i", "t">>,
   <<"w", "e">>, <<"t", "h", "e", "y">>, <<"m", "e">>, <<"h", "i", "m">>,
   <<"h", "e", "r">>, <<"u", "s">>, <<"t", "h", "e", "m">>, <<"m", "y">>,
   <<"y", "o", "u", "r">>, <<"h", "i", "s">>, <<"i", "t", "s">>,
   <<"o", "u", "r">>, <<"t", "h", "e", "i", "r">>}

(* text.toLowerCase().split(/\W+/).filter(word => word.length > 3 &&       *)
(* !stopWords.has(word))                                                   *)
keywordsOf(text) ==
  SelectSeq(splitWords(toLowerCase(text)),
            LAMBDA word : Len(word) > 3 /\ word \notin stopWords)

(* The number of whitespace characters from position p on *)
RECURSIVE spaceRun(_, _)
spaceRun(s, p) == IF p <= Len(s) /\ isSpace(s[p]) THEN 1 + spaceRun(s, p + 1) ELSE 0

(* The last position of the run of characters other than a line break that *)
(* starts at p                                                             *)
RECURSIVE lineEnd(_, _)
lineEnd(s, p) == IF p + 1 <= Len(s) /\ s[p + 1] # NewLine THEN lineEnd(s, p + 1) ELSE p

(* /##\s+([^\n]+)/ tried at position j: where the captured group starts,   *)
(* 0 when there is no match at j.  \s+ is greedy and gives characters back *)
(* until the group finds one that is not a line break.                     *)
headerStart(s, j) ==
  IF j + 1 <= Len(s) /\ s[j] = "#" /\ s[j + 1] = "#"
  THEN LET starts == {p \in (j + 3)..(j + 2 + spaceRun(s, j + 2)) :
                        p <= Len(s) /\ s[p] # NewLine}
       IN  IF starts = {} THEN 0
           ELSE CHOOSE p \in starts : \A q \in starts : q <= p
  ELSE 0

(* while ((match = headerRegex.exec(markdown)) !== null)                   *)
(* headers.push(match[1]): the next search starts where the match ended.   *)
RECURSIVE headersFrom(_, _)
headersFrom(s, j) ==
  IF j > Len(s) THEN <<>>
  ELSE IF headerStart(s, j) = 0 THEN headersFrom(s, j + 1)
  ELSE <<SubSeq(s, headerStart(s, j), lineEnd(s, headerStart(s, j)))>>
         \o headersFrom(s, lineEnd(s, headerStart(s, j)) + 1)

(* Array.from(new Set(xs)): the first occurrence of each value, in order *)
RECURSIVE unique(_)
unique(xs) ==
  IF xs = <<>> THEN <<>>
  ELSE LET rest == unique(SubSeq(xs, 1, Len(xs) - 1))
           last == xs[Len(xs)]
       IN  IF \E i \in 1..Len(rest) : rest[i] = last THEN rest ELSE Append(rest, last)

extractKeywords(title, markdown) ==
  unique(keywordsOf(title) \o keywordsOf(join(headersFrom(markdown, 1), <<" ">>)))

MaxTags == 10

tagMarvin == <<"m", "a", "r", "v", "i", "n">>

tagBlog == <<"b", "l", "o", "g">>

(* The characters of a category name *)
Spelling ==
  [philosophy |-> <<"p", "h", "i", "l", "o", "s", "o", "p", "h", "y">>,
   technology |-> <<"t", "e", "c", "h", "n", "o", "l", "o", "g", "y">>,
   art |-> <<"a", "r", "t">>,
   culture |-> <<"c", "u", "l", "t", "u", "r", "e">>,
   personal |-> <<"p", "e", "r", "s", "o", "n", "a", "l">>,
   general |-> <<"g", "e", "n", "e", "r", "a", "l">>]

chars(category) == IF category \in DOMAIN Spelling THEN Spelling[category] ELSE <<>>

(* The deduplication of buildTags: the lower-cased tags once each, each    *)
(* replaced by the first tag that lower-cases to it (originalTag || tag).  *)
uniqueTagsOf(allTags) ==
  LET lowered == unique([i \in 1..Len(allTags) |-> toLowerCase(allTags[i])])
  IN  [i \in 1..Len(lowered) |->
         LET first == CHOOSE k \in 1..Len(allTags) :
                        /\ toLowerCase(allTags[k]) = lowered[i]
                        /\ \A m \in 1..(k - 1) : toLowerCase(allTags[m]) # lowered[i]
         IN  IF allTags[first] = <<>> THEN lowered[i] ELSE allTags[first]]

(* A buildTags that does not cut the tags to ten. *)
buildTagsUncut(context, content) ==
  LET allTags == vibeTagsOf(context.tweets) \o memoryTagsOf(context.memoryInsights)
                   \o extractKeywords(content.title, content.markdown)
      uniqueTags == uniqueTagsOf(allTags)
  IN  Sync(\E i \in 1..Len(allTags) : ~IsString(allTags[i]),
           IF Len(uniqueTags) = 0
           THEN <<tagMarvin, tagBlog, chars(context.category)>>
           ELSE uniqueTags)

(* buildTags: tag.toLowerCase() is a TypeError on a tag that is not a      *)
(* string.                                                                 *)
buildTags(context, content) ==
  LET allTags == vibeTagsOf(context.tweets) \o memoryTagsOf(context.memoryInsights)
                   \o extractKeywords(content.title, content.markdown)
      limitedTags == Take(uniqueTagsOf(allTags), MaxTags)
  IN  Sync(\E i \in 1..Len(allTags) : ~IsString(allTags[i]),
           IF Len(limitedTags) = 0
           THEN <<tagMarvin, tagBlog, chars(context.category)>>
           ELSE limitedTags)

DefaultCharacterId == "default"

getCharacterId(tone, env) ==
  TryCatch(
    Await(select("getCharacterId", "character_files", 0, env.characters, env),
          LAMBDA characters :
            R(FALSE,
              IF Len(characters) > 0 THEN characters[1].id ELSE DefaultCharacterId,
              <<>>)),
    "database_error", "getCharacterId", env.sink, DefaultCharacterId)

(* A metadata that marks the post as published. *)
MetadataPublished(category, tags, tone, image, characterId) ==
  [category |-> category, tags |-> tags, tone |-> tone, memory_refs |-> <<>>,
   image_url |-> IF image.defined THEN image.url ELSE Undefined,
   character_id |-> characterId, html |-> Undefined, status |-> "published", version |-> 1]

(* The metadata of a post: a draft of version 1, no memory references and  *)
(* no HTML.                                                                *)
Metadata(category, tags, tone, image, characterId) ==
  [category |-> category, tags |-> tags, tone |-> tone, memory_refs |-> <<>>,
   image_url |-> IF image.defined THEN image.url ELSE Undefined,
   character_id |-> characterId, html |-> Undefined, status |-> "draft", version |-> 1]

(* The try block of buildMetadata. *)
buildMetadataBody(context, content, env) ==
  Await(getCharacterId(context.tone, env), LAMBDA characterId :
  Await(buildTags(context, content), LAMBDA tags :
    R(FALSE, Metadata(context.category, tags, context.tone, context.image, characterId),
      <<>>)))

createFallbackMetadata(context, content) ==
  LET category == IF context.category = "" THEN "general" ELSE context.category
  IN  Metadata(category, <<tagMarvin, tagBlog, chars(category)>>,
               IF context.tone = "" THEN "philosophical" ELSE context.tone,
               context.image, DefaultCharacterId)

buildMetadata(context, content, env) ==
  TryCatch(buildMetadataBody(context, content, env),
           "content_generation", "buildMetadata", env.sink,
           createFallbackMetadata(context, content))

-----------------------------------------------------------------------------
(* BloggerAgent *)

(* The environment of a run, the fields of env, besides those of a save:   *)
(*   context, compose, metadata  the stages before the save, each "ok" or  *)
(*                               "throws"                                  *)
(*   blogContext, content        what the context builder and the composer *)
(*                               answer with                               *)
(*   tweetDraft  the insert into tweet_drafts: "ok" or "fails"             *)
(*   activity    the insert into activity_logs: "ok" or "fails"            *)

stageError == [message |-> <<"T", "e", "s", "t", " ", "e", "r", "r", "o", "r">>]

(* A collaborator of generateBlogPost: it answers or it throws *)
stage(name, outcome, val) ==
  IF outcome = "throws"
  THEN R(TRUE, stageError, <<Ev("stage", name, "threw", 0, <<>>)>>)
  ELSE R(FALSE, val, <<Ev("stage", name, "ok", 0, <<>>)>>)

(* {...content, ...metadata}, as far as the publisher reads it: the id,    *)
(* should the content or the metadata carry one, and the status, the       *)
(* version and the image of the metadata.                                  *)
blogPostOf(content, metadata) ==
  Post(IF "id" \in DOMAIN metadata THEN metadata.id
       ELSE IF "id" \in DOMAIN content THEN content.id
       ELSE Undefined,
       metadata.status, metadata.version, metadata.image_url)

(* The try block of generateBlogPost: context, content, metadata, save.    *)
(* The context builder and the composer answer with env.blogContext and    *)
(* env.content; the metadata builder is the one above, unless it is made   *)
(* to throw.                                                               *)
generateBlogPostBody(useMemoryAsSource, env) ==
  Await(stage(IF useMemoryAsSource THEN "buildContextFromMemory" ELSE "buildContext",
              env.context, env.blogContext), LAMBDA context :
  Await(stage("compose", env.compose, env.content), LAMBDA content :
  Await(stage("buildMetadata", env.metadata, Undefined), LAMBDA called :
  Await(buildMetadata(context, content, env), LAMBDA metadata :
    saveAndPublish(blogPostOf(content, metadata), env)))))

generateBlogPost(useMemoryAsSource, env) ==
  TryRethrow(generateBlogPostBody(useMemoryAsSource, env),
             "unknown", "generateBlogPost", env.sink)

(* saveTweetDraft: a failure is reported and not thrown *)
saveTweetDraft(blogPostId, env) ==
  TryCatch(insert("tweet_drafts", [id |-> Undefined, blog_post_id |-> blogPostId, status |-> "draft"],
                  [env EXCEPT !.save = env.tweetDraft]),
           "database_error", "saveTweetDraft", env.sink, Undefined)

(* generateTweetsFromBlog: one tweet, saved as a draft *)
generateTweetsFromBlog(blogPost, env) ==
  TryRethrow(
    Await(saveTweetDraft(blogPost.id, env), LAMBDA saved : R(FALSE, 1, <<>>)),
    "content_generation", "generateTweetsFromBlog", env.sink)

(* activityLogger.logBlogCreated: logActivity('blog_created', ...) *)
logBlogCreated(blogPostId, tweetCount, env) ==
  TryCatch(insert("activity_logs",
                  [id |-> Undefined, action |-> "blog_created", blogPostId |-> blogPostId,
                   tweetCount |-> tweetCount],
                  [env EXCEPT !.save = env.activity]),
           "database_error", "logActivity", env.sink, Undefined)

(* A run that logs the activity before it generates the tweets. *)
runBodyLoggingFirst(useMemoryAsSource, env) ==
  Await(generateBlogPost(useMemoryAsSource, env), LAMBDA blogPost :
  Await(logBlogCreated(blogPost.id, 1, env), LAMBDA logged :
    generateTweetsFromBlog(blogPost, env)))

(* The try block of run *)
runBody(useMemoryAsSource, env) ==
  Await(generateBlogPost(useMemoryAsSource, env), LAMBDA blogPost :
  Await(generateTweetsFromBlog(blogPost, env), LAMBDA tweets :
    logBlogCreated(blogPost.id, tweets, env)))

(* console.error('Failed to run blogger agent:', error) *)
runFailure == Ev("console", "error", "Failed to run blogger agent", 0, <<>>)

(* A run without its try/catch. *)
runUnguarded(useMemoryAsSource, env) == runBody(useMemoryAsSource, env)

(* run: whatever its try block throws ends on the console *)
run(useMemoryAsSource, env) ==
  LET body == runBody(useMemoryAsSource, env)
  IN  IF body.threw THEN R(FALSE, Undefined, body.tr \o <<runFailure>>)
      ELSE R(FALSE, Undefined, body.tr)

-----------------------------------------------------------------------------
(* ConfigManager and the construction of the agent *)

requiredVars == <<"SUPABASE_URL", "SUPABASE_KEY", "OPENAI_API_KEY", "QDRANT_HOST", "QDRANT_PORT">>

WordPressVars == {"WORDPRESS_URL", "WORDPRESS_USERNAME", "WORDPRESS_PASSWORD"}

missingVar(varName) == [message |-> <<"Missing required environment variable: ", varName>>]

(* loadConfig over process.env, the set of the variables that have a       *)
(* value: throws at the first required variable without one; the config    *)
(* holds the required variables and LOG_LEVEL.                             *)
RECURSIVE loadRequired(_, _)
loadRequired(names, processEnv) ==
  IF names = <<>> THEN R(FALSE, {}, <<>>)
  ELSE IF Head(names) \notin processEnv THEN R(TRUE, missingVar(Head(names)), <<>>)
  ELSE LET rest == loadRequired(Tail(names), processEnv)
       IN  IF rest.threw THEN rest ELSE R(FALSE, {Head(names)} \cup rest.val, <<>>)

loadConfig(processEnv) ==
  Await(loadRequired(requiredVars, processEnv),
        LAMBDA config : R(FALSE, config \cup {"LOG_LEVEL"}, <<>>))

(* key in this.config *)
has(config, key) == key \in config

(* The flag the constructor of PublisherAdapter computes *)
wordpressEnabled(config) ==
  has(config, "WORDPRESS_URL") /\ has(config, "WORDPRESS_USERNAME")
    /\ has(config, "WORDPRESS_PASSWORD")

(* new BloggerAgent(): setupDependencies builds the ConfigManager and      *)
(* hands it, through the container, to the PublisherAdapter.               *)
setupDependencies(processEnv) ==
  Await(loadConfig(processEnv),
        LAMBDA config : R(FALSE, [config |-> config,
                                  wordpressEnabled |-> wordpressEnabled(config)], <<>>))

-----------------------------------------------------------------------------
(* The values the calls are made with *)

tagAI == <<"A", "I">>

tagArt == <<"a", "r", "t">>

tagSmartTech == <<"s", "m", "a", "r", "t", " ", "t", "e", "c", "h">>

tagPhilosophy == <<"p", "h", "i", "l", "o", "s", "o", "p", "h", "y">>

tagNews == <<"N", "e", "w", "s">>

tagLife == <<"L", "i", "f", "e">>

tagMisc == <<"m", "i", "s", "c">>

Tags == {tagAI, tagArt, tagSmartTech, tagPhilosophy, tagLife, tagMisc, NotAString}

Pad(c, n) == [i \in 1..n |-> c]

contentA1 == Pad("a", PrefixLen) \o <<"x">>

contentA2 == Pad("a", PrefixLen) \o <<"y">>

contentB == Pad("a", PrefixLen - 1) \o <<"b">>

pointA1 ==
  [id |-> "m1",
   payload |-> [content |-> contentA1, tags |-> <<tagAI>>, timestamp |-> <<1, 5>>,
                type |-> "thought", alignment_score |-> 9]]

pointA2 ==
  [id |-> Undefined,
   payload |-> [content |-> contentA2, tags |-> <<tagArt>>, timestamp |-> <<>>,
                type |-> Undefined, alignment_score |-> 0]]

pointB ==
  [id |-> "m3",
   payload |-> [content |-> contentB, tags |-> <<>>, timestamp |-> <<1, 8>>,
                type |-> "tweet", alignment_score |-> 5]]

pointOld ==
  [id |-> "m4",
   payload |-> [content |-> <<"o", "l", "d">>, tags |-> <<tagNews>>, timestamp |-> <<0, 8>>,
                type |-> "tweet", alignment_score |-> 5]]

pointBadTag ==
  [id |-> "m5",
   payload |-> [content |-> <<"b", "a", "d">>, tags |-> <<NotAString>>, timestamp |-> <<1, 9>>,
                type |-> "thought", alignment_score |-> 5]]

pointNoTags ==
  [id |-> "m6",
   payload |-> [content |-> <<"n">>, tags |-> <<>>, timestamp |-> <<1, 9>>,
                type |-> "thought", alignment_score |-> 8]]

Points == {pointA1, pointA2, pointB}

(* The answers of one search: distinct points, at most n of them *)
PointLists(S, n) ==
  {s \in SeqsUpTo(S, n) : \A i, j \in 1..Len(s) : i # j => s[i] # s[j]}

(* The draws of one shuffle of at most n elements *)
PickSeqs(n) == {p \in [1..(n - 1) -> 0..(n - 1)] : \A i \in 1..(n - 1) : p[i] <= i}

query1 == <<"q", "1">>

query2 == <<"q", "2">>

Queries == {query1, query2}

BaseEnv ==
  [sink |-> "ok", down |-> "none", embedFail |-> {}, searchFail |-> {},
   byQuery |-> <<>>, other |-> <<>>, picks |-> <<>>, now |-> 20,
   failing |-> {}, tweetStore |-> <<>>, imageStore |-> <<>>, promptStore |-> <<>>,
   characters |-> <<>>, rnd |-> 0]

Sinks == {"ok", "fails"}

-----------------------------------------------------------------------------
(* The state machine: one call at a time, run to completion.  phase is     *)
(* "idle" between calls and "done" when a call has returned or thrown; op  *)
(* and arg are the call and its inputs (with the environment env it ran    *)
(* in), ret its outcome, trace the requests it issued.                     *)

Idle == [none |-> TRUE]

(* No searchMultipleQueries in flight *)
NoSearches == [pc |-> <<>>, results |-> <<>>, completed |-> <<>>]

Init ==
  /\ phase = "idle"
  /\ op = "none"
  /\ arg = Idle
  /\ ret = [threw |-> FALSE, val |-> Undefined]
  /\ trace = <<>>
  /\ scheduler = [pc |-> "start", step |-> 0]
  /\ handlers = [h \in 1..MaxRequests |-> 0]
  /\ searches = NoSearches

(* The caller takes the result; the next call starts from a fresh state. *)
Return ==
  /\ phase = "done"
  /\ phase' = "idle"
  /\ op' = "none"
  /\ arg' = Idle
  /\ ret' = [threw |-> FALSE, val |-> Undefined]
  /\ trace' = <<>>
  /\ UNCHANGED procs

Pools == SeqsUpTo(Tags, MaxPool)

DetermineCategoryCall ==
  /\ phase = "idle"
  /\ \E vibeTags \in Pools, tags \in Pools :
       /\ Len(vibeTags) + Len(tags) <= MaxPool
       /\ LET tweets == IF vibeTags = <<>> THEN <<>>
                        ELSE <<[id |-> "t1", text |-> <<"h", "i">>, url |-> "u1",
                                created_at |-> "d1", vibe_tags |-> vibeTags]>>
              memoryInsights ==
                IF tags = <<>> THEN <<>>
                ELSE <<[content |-> contentB, tags |-> tags, timestamp |-> <<1, 8>>]>>
              r == determineCategory(tweets, memoryInsights)
          IN  /\ phase' = "done"
              /\ op' = "determineCategory"
              /\ arg' = [tweets |-> tweets, memoryInsights |-> memoryInsights,
                         pool |-> vibeTags \o tags]
              /\ ret' = r
              /\ trace' = <<>>
              /\ UNCHANGED procs

DetermineCategoryFromMemoriesCall ==
  /\ phase = "idle"
  /\ \E tags1 \in Pools, tags2 \in Pools :
       /\ Len(tags1) + Len(tags2) <= MaxPool
       /\ LET memoryInsights ==
                <<[content |-> contentA1, tags |-> tags1, timestamp |-> <<1, 5>>],
                  [content |-> contentB, tags |-> tags2, timestamp |-> <<1, 8>>]>>
              r == determineCategoryFromMemories(memoryInsights)
          IN  /\ phase' = "done"
              /\ op' = "determineCategoryFromMemories"
              /\ arg' = [memoryInsights |-> memoryInsights, pool |-> tags1 \o tags2]
              /\ ret' = r
              /\ trace' = <<>>
              /\ UNCHANGED procs

NextCategory == DetermineCategoryCall \/ DetermineCategoryFromMemoriesCall \/ Return

SpecCategory == Init /\ [][NextCategory]_vars

-----------------------------------------------------------------------------
(* Calls of the vector memory client *)

Limits == {1, 5}

(* Per query: the backend answers, the embedding fails, or the search fails *)
Outcomes == {"ok", "embed", "search"}

Answers == PointLists(Points, MaxHits)

QueryEnv(sink, outcome, byQuery) ==
  [BaseEnv EXCEPT !.sink = sink,
                  !.embedFail = {q \in DOMAIN outcome : outcome[q] = "embed"},
                  !.searchFail = {q \in DOMAIN outcome : outcome[q] = "search"},
                  !.byQuery = byQuery]

SearchMemoriesCall ==
  /\ phase = "idle"
  /\ \E query \in Queries, limit \in Limits, sink \in Sinks, outcome \in Outcomes, points \in Answers :
       LET env == QueryEnv(sink, [q \in {query} |-> outcome], [q \in {query} |-> points])
           r == searchMemories(query, limit, env)
       IN  /\ phase' = "done"
           /\ op' = "searchMemories"
           /\ arg' = [query |-> query, limit |-> limit, env |-> env]
           /\ ret' = [threw |-> r.threw, val |-> r.val]
           /\ trace' = r.tr
           /\ UNCHANGED procs

QueryLists == SeqsUpTo(Queries, MaxQueries)

SearchMultipleQueriesCall ==
  /\ phase = "idle"
  /\ \E queries \in QueryLists, sink \in Sinks, outcome \in [Queries -> Outcomes],
        byQuery \in [Queries -> Answers] :
       LET env == QueryEnv(sink, outcome, byQuery)
           r == searchMultipleQueries(queries, DefaultPerQueryLimit, env)
       IN  /\ phase' = "done"
           /\ op' = "searchMultipleQueries"
           /\ arg' = [queries |-> queries, limit |-> DefaultPerQueryLimit, env |-> env]
           /\ ret' = [threw |-> r.threw, val |-> r.val]
           /\ trace' = r.tr
           /\ UNCHANGED procs

Counts == {1, 2}

Picks == PickSeqs(MaxHits)

GetRandomMemoriesCall ==
  /\ phase = "idle"
  /\ \E count \in Counts, sink \in Sinks, outcome \in {"ok", "search"},
        points \in Answers, picks \in Picks :
       LET env == [QueryEnv(sink, [q \in {RandomVector} |-> outcome],
                            [q \in {RandomVector} |-> points])
                     EXCEPT !.picks = picks]
           r == getRandomMemories(count, env)
       IN  /\ phase' = "done"
           /\ op' = "getRandomMemories"
           /\ arg' = [count |-> count, env |-> env]
           /\ ret' = [threw |-> r.threw, val |-> r.val]
           /\ trace' = r.tr
           /\ UNCHANGED procs

DatedAnswers == PointLists(Points \cup {pointOld}, MaxHits)

GetRecentMemoriesCall ==
  /\ phase = "idle"
  /\ \E limit \in Limits, sink \in Sinks, outcome \in {"ok", "search"}, points \in DatedAnswers :
       LET env == QueryEnv(sink, [q \in {ScrollAll} |-> outcome], [q \in {ScrollAll} |-> points])
           r == getRecentMemories(7, limit, env)
       IN  /\ phase' = "done"
           /\ op' = "getRecentMemories"
           /\ arg' = [days |-> 7, limit |-> limit, env |-> env]
           /\ ret' = [threw |-> r.threw, val |-> r.val]
           /\ trace' = r.tr
           /\ UNCHANGED procs

TagLists == SeqsUpTo({tagAI, tagArt}, MaxQueries)

GetMemoriesByTagsCall ==
  /\ phase = "idle"
  /\ \E tags \in TagLists, limit \in Limits, sink \in Sinks, outcome \in Outcomes, points \in Answers :
       LET env == [BaseEnv EXCEPT !.sink = sink,
                                  !.down = IF outcome = "ok" THEN "none" ELSE outcome,
                                  !.other = points]
           r == getMemoriesByTags(tags, limit, env)
       IN  /\ phase' = "done"
           /\ op' = "getMemoriesByTags"
           /\ arg' = [tags |-> tags, limit |-> limit, env |-> env]
           /\ ret' = [threw |-> r.threw, val |-> r.val]
           /\ trace' = r.tr
           /\ UNCHANGED procs

NextQdrant ==
  \/ SearchMemoriesCall
  \/ SearchMultipleQueriesCall
  \/ GetRandomMemoriesCall
  \/ GetRecentMemoriesCall
  \/ GetMemoriesByTagsCall
  \/ Return

SpecQdrant == Init /\ [][NextQdrant]_vars

-----------------------------------------------------------------------------
(* Calls of the context builder *)

rowAI ==
  [id |-> "1", tweet_id |-> "t1", tweet_text |-> <<"h", "i">>, tweet_url |-> "u1",
   created_at |-> "d3", vibe_tags |-> <<tagAI, tagLife>>]

rowPlain ==
  [id |-> "2", tweet_id |-> "t2", tweet_text |-> <<>>, tweet_url |-> "u2",
   created_at |-> "d2", vibe_tags |-> <<>>]

rowBadTag ==
  [id |-> "3", tweet_id |-> "t3", tweet_text |-> <<"y", "o">>, tweet_url |-> "u3",
   created_at |-> "d1", vibe_tags |-> <<NotAString>>]

rowAIToo ==
  [id |-> "4", tweet_id |-> "t4", tweet_text |-> <<>>, tweet_url |-> "u4",
   created_at |-> "d4", vibe_tags |-> <<tagAI>>]

rowAIArt ==
  [id |-> "5", tweet_id |-> "t5", tweet_text |-> <<>>, tweet_url |-> "u5",
   created_at |-> "d5", vibe_tags |-> <<tagArt, tagAI>>]

TweetRows == {rowAI, rowPlain, rowBadTag}

(* A store of three posts that all carry the tag AI *)
taggedStore == <<rowAIArt, rowAIToo, rowAI>>

TweetStores == PointLists(TweetRows, MaxTweets)

imageWithPrompt == [id |-> "i1", image_url |-> "img1", prompt_id |-> "p1", created_at |-> "d1"]

imageNoPrompt == [id |-> "i2", image_url |-> "img2", prompt_id |-> Undefined, created_at |-> "d2"]

imageLostPrompt == [id |-> "i3", image_url |-> "img3", prompt_id |-> "p9", created_at |-> "d3"]

promptRows == <<[id |-> "p1", text |-> tagArt]>>

ImageStores == {<<>>, <<imageNoPrompt, imageWithPrompt>>, <<imageLostPrompt>>}

ImageSites == {"imageIds", "imageById", "prompts"}

(* The image store, the random draw and the failing image selects.  A      *)
(* select that the call does not reach is not listed as failing, and a     *)
(* store whose first select throws is never read and is left empty.        *)
ImageCases ==
  {c \in [store : ImageStores, rnd : {0, 1}, failing : SUBSET ImageSites] :
     /\ c.rnd < Len(c.store) \/ c.rnd = 0
     /\ "imageIds" \in c.failing => c.store = <<>> /\ c.failing = {"imageIds"}
     /\ c.store = <<>> => c.failing \subseteq {"imageIds"}
     /\ "imageById" \in c.failing => "prompts" \notin c.failing
     /\ c.store # <<>> /\ c.store[c.rnd + 1].prompt_id = Undefined => "prompts" \notin c.failing}

CharacterStores ==
  {<<>>,
   <<[id |-> "c1", content |-> NullCharacter]>>,
   <<[id |-> "c2", content |-> [null |-> FALSE, tone |-> "technical", personality |-> "grumpy"]]>>,
   <<[id |-> "c3", content |-> [null |-> FALSE, tone |-> "", personality |-> "grumpy"]]>>,
   <<[id |-> "c4", content |-> [null |-> FALSE, tone |-> "", personality |-> ""]]>>}

PersonaCases ==
  {[store |-> <<>>, failing |-> {"character_files"}]}
    \cup {[store |-> c, failing |-> {}] : c \in CharacterStores}

(* The vector backend as the context builder meets it *)
MemoryCases ==
  {[down |-> "none", other |-> <<>>],
   [down |-> "none", other |-> <<pointOld, pointNoTags>>],
   [down |-> "none", other |-> <<pointBadTag>>],
   [down |-> "embed", other |-> <<>>],
   [down |-> "search", other |-> <<>>]}

ThrewAt(tr) == {tr[i].o : i \in {j \in 1..Len(tr) : tr[j].k = "select" /\ tr[j].t = "threw"}}

ReadAt(tr) == {tr[i].o : i \in {j \in 1..Len(tr) : tr[j].k = "select" /\ tr[j].t = "ok"}}

Has(tr, k) == \E i \in 1..Len(tr) : tr[i].k = k

(* env lists what the call met: the selects that threw, the stores that    *)
(* were read, a backend and an error sink that were used.                  *)
Met(env, tr) ==
  /\ env.failing = ThrewAt(tr)
  /\ env.tweetStore # <<>> => ReadAt(tr) \cap {"getLatestTweets", "getTweetsByTags"} # {}
  /\ env.sink # "ok" => Has(tr, "insert")
  /\ env.down # "none" \/ env.other # <<>> => Has(tr, "embed")

ContextEnv(sink, memory, tweetStore, tweetFailing, image, persona) ==
  [BaseEnv EXCEPT !.sink = sink, !.down = memory.down, !.other = memory.other,
                  !.failing = tweetFailing \cup image.failing \cup persona.failing,
                  !.tweetStore = tweetStore,
                  !.imageStore = image.store, !.rnd = image.rnd, !.promptStore = promptRows,
                  !.characters = persona.store]

(* Environments of buildContext: one select of posts *)
LatestEnvs ==
  {ContextEnv(sink, memory, tweetStore, tweetFailing, image, persona) :
     sink \in Sinks, memory \in MemoryCases, tweetStore \in TweetStores,
     tweetFailing \in SUBSET {"getLatestTweets"},
     image \in ImageCases, persona \in PersonaCases}

(* Environments of the memory-first build: two selects of posts, no search *)
ByTagsEnvs ==
  {ContextEnv(sink, [down |-> "none", other |-> <<>>], tweetStore, tweetFailing, image, persona) :
     sink \in Sinks, tweetStore \in TweetStores \cup {taggedStore},
     tweetFailing \in SUBSET {"getLatestTweets", "getTweetsByTags"},
     image \in ImageCases, persona \in PersonaCases}

BuildContextCall ==
  /\ phase = "idle"
  /\ \E env \in LatestEnvs :
       \E r \in {buildContext(env)} :
           /\ Met(env, r.tr) = TRUE
           /\ phase' = "done"
           /\ op' = "buildContext"
           /\ arg' = [env |-> env]
           /\ ret' = [threw |-> r.threw, val |-> r.val]
           /\ trace' = r.tr
           /\ UNCHANGED procs

(* What the random-vector search answers, how many memories are asked for  *)
(* and the draws of the shuffle.                                           *)
RandomCases ==
  {[count |-> 5, outcome |-> "search", points |-> <<>>, picks |-> <<0>>],
   [count |-> 5, outcome |-> "ok", points |-> <<>>, picks |-> <<0>>],
   [count |-> 5, outcome |-> "ok", points |-> <<pointNoTags>>, picks |-> <<0>>],
   [count |-> 1, outcome |-> "ok", points |-> <<pointA1, pointNoTags>>, picks |-> <<0>>],
   [count |-> 1, outcome |-> "ok", points |-> <<pointA1, pointNoTags>>, picks |-> <<1>>],
   [count |-> 5, outcome |-> "ok", points |-> <<pointA1, pointNoTags>>, picks |-> <<1>>],
   [count |-> 5, outcome |-> "ok", points |-> <<pointBadTag>>, picks |-> <<0>>]}

BuildContextFromMemoryCall ==
  /\ phase = "idle"
  /\ \E random \in RandomCases :
       \E base \in IF random.points = <<>> THEN LatestEnvs ELSE ByTagsEnvs :
         LET env == [base EXCEPT
                       !.searchFail = IF random.outcome = "search" THEN {RandomVector} ELSE {},
                       !.byQuery = [q \in {RandomVector} |-> random.points],
                       !.picks = random.picks]
         IN  \E r \in {buildContextFromMemory(random.count, env)} :
             /\ Met(env, r.tr) = TRUE
             /\ phase' = "done"
             /\ op' = "buildContextFromMemory"
             /\ arg' = [memoryCount |-> random.count, env |-> env]
             /\ ret' = [threw |-> r.threw, val |-> r.val]
             /\ trace' = r.tr
             /\ UNCHANGED procs

NextContext == BuildContextCall \/ BuildContextFromMemoryCall \/ Return

SpecContext == Init /\ [][NextContext]_vars

(* The two entry points that turn a list of queries into searches *)
NextQueries == SearchMultipleQueriesCall \/ BuildContextCall \/ Return

SpecQueries == Init /\ [][NextQueries]_vars

(* Calls of the publisher *)

MaxVersion == 2

Posts ==
  {Post(id, status, version, image_url) :
     id \in {Undefined, "456"}, status \in {"draft", "published"},
     version \in 1..MaxVersion, image_url \in {Undefined, "img1"}}

(* The stores and the WordPress site a save meets.  What a save does not   *)
(* reach is left at "ok".                                                  *)
PublisherEnvs ==
  {e \in [wordpressEnabled : BOOLEAN, save : {"ok", "null", "fails"}, newId : {"789"},
          upload : {"ok", "fails"}, wp : {"link", "nolink", "fails"},
          urlUpdate : {"ok", "fails"}, sink : Sinks] :
     /\ ~e.wordpressEnabled \/ e.save = "fails" => e.wp = "link" /\ e.upload = "ok"
     /\ e.wp # "link" => e.urlUpdate = "ok"}

SaveAndPublishCall ==
  /\ phase = "idle"
  /\ \E blogPost \in Posts, env \in PublisherEnvs :
       \E r \in {saveAndPublish(blogPost, env)} :
           /\ phase' = "done"
           /\ op' = "saveAndPublish"
           /\ arg' = [blogPost |-> blogPost, env |-> env]
           /\ ret' = [threw |-> r.threw, val |-> r.val]
           /\ trace' = r.tr
           /\ UNCHANGED procs

NextPublisher == SaveAndPublishCall \/ Return

SpecPublisher == Init /\ [][NextPublisher]_vars

(* Constructions of the agent *)

EnvVars == Range(requiredVars) \cup WordPressVars \cup {"LOG_LEVEL", "PORT"}

NewBloggerAgent ==
  /\ phase = "idle"
  /\ \E processEnv \in SUBSET EnvVars :
       \E r \in {setupDependencies(processEnv)} :
           /\ phase' = "done"
           /\ op' = "new BloggerAgent"
           /\ arg' = [processEnv |-> processEnv]
           /\ ret' = [threw |-> r.threw, val |-> r.val]
           /\ trace' = r.tr
           /\ UNCHANGED procs

NextConfig == NewBloggerAgent \/ Return

SpecConfig == Init /\ [][NextConfig]_vars

(* The scheduler loop of run.sh and the POST /create handlers of the web   *)
(* server.  The two run in separate processes; a run advances from one     *)
(* await of BloggerAgent.run to the next, and the handlers of one server   *)
(* interleave at those awaits.                                             *)

(* The awaits of BloggerAgent.run *)
RunSteps == <<"generateBlogPost", "generateTweetsFromBlog", "logBlogCreated">>

(* node /app/dist/index.js, run at once when the script starts *)
StartFirstRun ==
  /\ scheduler.pc = "start"
  /\ scheduler' = [pc |-> "first", step |-> 1]
  /\ UNCHANGED <<handlers, searches, phase, op, arg, ret, trace>>

(* The first run cannot build its agent: handle_error leaves the script *)
FirstRunFails ==
  /\ scheduler.pc = "start"
  /\ scheduler' = [pc |-> "exited", step |-> 0]
  /\ UNCHANGED <<handlers, searches, phase, op, arg, ret, trace>>

(* sleep 21600 is over: node /app/dist/index.js *)
StartScheduledRun ==
  /\ scheduler.pc = "sleeping"
  /\ scheduler' = [pc |-> "running", step |-> 1]
  /\ UNCHANGED <<handlers, searches, phase, op, arg, ret, trace>>

AdvanceScheduledRun ==
  /\ scheduler.pc \in {"first", "running"}
  /\ scheduler.step < Len(RunSteps)
  /\ scheduler' = [scheduler EXCEPT !.step = @ + 1]
  /\ UNCHANGED <<handlers, searches, phase, op, arg, ret, trace>>

(* The run is over and the loop sleeps until the next one *)
FinishScheduledRun ==
  /\ scheduler.pc \in {"first", "running"}
  /\ scheduler.step = Len(RunSteps)
  /\ scheduler' = [pc |-> "sleeping", step |-> 0]
  /\ UNCHANGED <<handlers, searches, phase, op, arg, ret, trace>>

(* app.post('/create'): the handler calls bloggerAgent.run() *)
PostCreate(h) ==
  /\ handlers[h] = 0
  /\ handlers' = [handlers EXCEPT ![h] = 1]
  /\ UNCHANGED <<scheduler, searches, phase, op, arg, ret, trace>>

AdvanceCreate(h) ==
  /\ handlers[h] \in 1..(Len(RunSteps) - 1)
  /\ handlers' = [handlers EXCEPT ![h] = @ + 1]
  /\ UNCHANGED <<scheduler, searches, phase, op, arg, ret, trace>>

(* await bloggerAgent.run() is over: res.redirect('/') *)
RedirectCreate(h) ==
  /\ handlers[h] = Len(RunSteps)
  /\ handlers' = [handlers EXCEPT ![h] = 0]
  /\ UNCHANGED <<scheduler, searches, phase, op, arg, ret, trace>>

NextServer ==
  \/ StartFirstRun
  \/ FirstRunFails
  \/ StartScheduledRun
  \/ AdvanceScheduledRun
  \/ FinishScheduledRun
  \/ \E h \in 1..MaxRequests : PostCreate(h)
  \/ \E h \in 1..MaxRequests : AdvanceCreate(h)
  \/ \E h \in 1..MaxRequests : RedirectCreate(h)

SpecServer == Init /\ [][NextServer]_vars

(* A searchMultipleQueries in flight.  queries.map(query =>                *)
(* this.searchMemories(query, limit)) starts one search per query; each    *)
(* runs to its first await, the embedding request, and goes on when that   *)
(* is answered; the answers come in any order.  searches.pc[i] is what     *)
(* search i waits for ("embed", "search") or "done"; searches.results[i]   *)
(* is what it resolved to; searches.completed lists the searches in the    *)
(* order they finished.  A request enters the trace when it is answered.   *)

(* Per query: nothing found, one memory, two memories the first of which   *)
(* shares its first 100 characters with the one memory                     *)
ConcurrentAnswers == {<<>>, <<pointA1>>, <<pointA2, pointB>>}

StartSearches ==
  /\ phase = "idle"
  /\ \E queries \in QueryLists \ {<<>>}, sink \in Sinks, outcome \in [Queries -> Outcomes],
        byQuery \in [Queries -> ConcurrentAnswers] :
       /\ phase' = "searching"
       /\ op' = "searchMultipleQueries"
       /\ arg' = [queries |-> queries, limit |-> DefaultPerQueryLimit,
                  env |-> QueryEnv(sink, outcome, byQuery)]
       /\ searches' = [pc |-> [i \in 1..Len(queries) |-> "embed"],
                       results |-> [i \in 1..Len(queries) |-> <<>>],
                       completed |-> <<>>]
  /\ UNCHANGED <<ret, trace, scheduler, handlers>>

(* The embedding request of search i is answered: with a vector, and the   *)
(* search request goes out; or with an error, which generateEmbedding      *)
(* reports and throws and searchMemories reports and turns into [].        *)
EmbeddingAnswered(i) ==
  /\ phase = "searching"
  /\ searches.pc[i] = "embed"
  /\ \E r \in {searchMemories(arg.queries[i], arg.limit, arg.env)} :
       IF embedFails(arg.env, arg.queries[i])
       THEN /\ searches' = [pc |-> [searches.pc EXCEPT ![i] = "done"],
                            results |-> [searches.results EXCEPT ![i] = r.val],
                            completed |-> Append(searches.completed, i)]
            /\ trace' = trace \o r.tr
       ELSE /\ searches' = [searches EXCEPT !.pc[i] = "search"]
            /\ trace' = trace \o <<Head(r.tr)>>
  /\ UNCHANGED <<phase, op, arg, ret, scheduler, handlers>>

(* The search request of search i is answered: with points, which are      *)
(* mapped to insights; or with an error, reported and turned into [].      *)
SearchAnswered(i) ==
  /\ phase = "searching"
  /\ searches.pc[i] = "search"
  /\ \E r \in {searchMemories(arg.queries[i], arg.limit, arg.env)} :
       /\ searches' = [pc |-> [searches.pc EXCEPT ![i] = "done"],
                       results |-> [searches.results EXCEPT ![i] = r.val],
                       completed |-> Append(searches.completed, i)]
       /\ trace' = trace \o Tail(r.tr)
  /\ UNCHANGED <<phase, op, arg, ret, scheduler, handlers>>

(* All searches have settled: Promise.all resolves, the results are        *)
(* flattened and deduplicated.                                             *)
JoinSearches ==
  /\ phase = "searching"
  /\ \A i \in 1..Len(searches.pc) : searches.pc[i] = "done"
  /\ phase' = "done"
  /\ ret' = [threw |-> FALSE,
             val |-> deduplicateMemories(
                       Flatten(promiseAll(searches.results, searches.completed)))]
  /\ searches' = NoSearches
  /\ UNCHANGED <<op, arg, trace, scheduler, handlers>>

NextSearches ==
  \/ StartSearches
  \/ \E i \in 1..MaxQueries : i <= Len(searches.pc) /\ EmbeddingAnswered(i)
  \/ \E i \in 1..MaxQueries : i <= Len(searches.pc) /\ SearchAnswered(i)
  \/ JoinSearches
  \/ Return

SpecSearches == Init /\ [][NextSearches]_vars

-----------------------------------------------------------------------------
(* Calls of the metadata builder *)

tagAILower == <<"a", "i">>

(* Eleven tags, no two alike *)
manyTags == [i \in 1..(MaxTags + 1) |-> <<"t", Lower[i]>>]

(* The tags of the one post or of the one memory of a context: none, one,  *)
(* two that differ in case only, one that is not a string, the empty       *)
(* string, more than ten.                                                  *)
TagInputs ==
  {<<>>, <<tagAI>>, <<tagAILower, tagAI>>, <<NotAString>>, <<<<>>>>, manyTags}

titleA ==
  <<"A">>

titleTest ==
  <<"T", "e", "s", "t", " ", "T", "i", "t", "l", "e">>

titleDance ==
  <<"T", "h", "e", " ", "D", "a", "n", "c", "e", " ", "o", "f", " ", "A",
    "I">>

markdownPlain ==
  <<"A", " ", "s", "i", "m", "p", "l", "e", " ", "p", "o", "s", "t">>

markdownTest ==
  <<"T", "e", "s", "t", " ", "c", "o", "n", "t", "e", "n", "t">>

(* Two headers, one of them at the end of the text *)
markdownHeaders ==
  <<"\n", "#", "#", " ", "W", "h", "e", "r", "e", " ", "T", "e", "c", "h",
    " ", "M", "e", "e", "t", "s", "\n", "\n", "T", "e", "x", "t", "\n", "#",
    "#", " ", "T", "e", "c", "h">>

(* A header mark with nothing on its line: \s+ runs over the line breaks *)
markdownBareHeader ==
  <<"#", "#", "\n", "\n", "D", "e", "e", "p", " ", "t", "h", "o", "u", "g",
    "h", "t">>

Contents ==
  {[title |-> titleA, markdown |-> markdownPlain],
   [title |-> titleTest, markdown |-> markdownTest],
   [title |-> titleDance, markdown |-> markdownHeaders],
   [title |-> titleA, markdown |-> markdownBareHeader]}

imageGiven == [defined |-> TRUE, url |-> "img1", prompt |-> <<>>]

MetadataContext(tweetTags, memoryTags, category, tone, image) ==
  [tweets |-> <<[id |-> "t1", text |-> <<>>, url |-> "u1", created_at |-> "d1",
                 vibe_tags |-> tweetTags]>>,
   image |-> image,
   memoryInsights |-> <<[content |-> <<>>, tags |-> memoryTags, timestamp |-> "d1"]>>,
   tone |-> tone, category |-> category]

MetadataContexts ==
  {MetadataContext(tweetTags, memoryTags, category, tone, image) :
     tweetTags \in TagInputs, memoryTags \in TagInputs,
     category \in {"technology", "philosophy"}, tone \in {"philosophical", "technical"},
     image \in {NoImage, imageGiven}}

(* The character lookup: it fails, finds no row, or finds one *)
CharacterLookups ==
  {[failing |-> {"getCharacterId"}, characters |-> <<>>],
   [failing |-> {}, characters |-> <<>>],
   [failing |-> {}, characters |-> <<[id |-> "character-123"]>>]}

BuildMetadataCall ==
  /\ phase = "idle"
  /\ \E context \in MetadataContexts, content \in Contents, sink \in Sinks,
        lookup \in CharacterLookups :
       \E env \in {[BaseEnv EXCEPT !.sink = sink, !.failing = lookup.failing,
                                   !.characters = lookup.characters]} :
       \E r \in {buildMetadata(context, content, env)} :
           /\ phase' = "done"
           /\ op' = "buildMetadata"
           /\ arg' = [context |-> context, content |-> content, env |-> env]
           /\ ret' = [threw |-> r.threw, val |-> r.val]
           /\ trace' = r.tr
           /\ UNCHANGED procs

NextMetadata == BuildMetadataCall \/ Return

SpecMetadata == Init /\ [][NextMetadata]_vars

-----------------------------------------------------------------------------
(* Runs of the agent *)

(* The contexts a run works on: without tags, with a tagged post and an    *)
(* image, with a tag that is not a string (the fallback metadata)          *)
AgentContexts ==
  {MetadataContext(<<>>, <<>>, "technology", "philosophical", NoImage),
   MetadataContext(<<tagAI>>, <<>>, "technology", "philosophical", imageGiven),
   MetadataContext(<<NotAString>>, <<>>, "technology", "philosophical", imageGiven)}

(* WordPress is configured or not; every stage, the character lookup, the  *)
(* three stores and the error log may fail.                                *)
AgentEnvs ==
  [wordpressEnabled : BOOLEAN, save : {"ok", "null", "fails"}, newId : {"789"},
   upload : {"ok"}, wp : {"link"}, urlUpdate : {"ok"}, sink : Sinks,
   context : {"ok", "throws"}, compose : {"ok", "throws"}, metadata : {"ok", "throws"},
   tweetDraft : {"ok", "fails"}, activity : {"ok", "fails"},
   blogContext : AgentContexts,
   content : {[title |-> titleTest, markdown |-> markdownTest]},
   failing : {{}, {"getCharacterId"}}, characters : {<<[id |-> "character-123"]>>}]

RunCall ==
  /\ phase = "idle"
  /\ \E useMemoryAsSource \in BOOLEAN, env \in AgentEnvs :
       \E r \in {run(useMemoryAsSource, env)} :
           /\ phase' = "done"
           /\ op' = "run"
           /\ arg' = [useMemoryAsSource |-> useMemoryAsSource, env |-> env]
           /\ ret' = [threw |-> r.threw, val |-> r.val]
           /\ trace' = r.tr
           /\ UNCHANGED procs

NextAgent == RunCall \/ Return

SpecAgent == Init /\ [][NextAgent]_vars

-----------------------------------------------------------------------------
(* Calls of the error handler *)

MaxAttempt == 3

rateLimitError == [message |-> <<"R", "a", "t", "e", " ", "l", "i", "m", "i", "t">>]

ErrorsHandled == {selectError, rateLimitError, typeError}

(* The contexts handleError is given: none, or an operation with or        *)
(* without attempt and maxAttempts.                                        *)
Contexts ==
  {NoCtx} \cup {[Ctx("test-operation") EXCEPT !.attempt = a, !.maxAttempts = m] :
                  a \in 0..MaxAttempt, m \in 0..MaxAttempt}

(* The error_logs service of the handler: writing, failing, or not there *)
HandlerSinks == {"ok", "fails", "null"}

HandleErrorCall ==
  /\ phase = "idle"
  /\ \E error \in ErrorsHandled, type \in ErrorTypes, context \in Contexts, sink \in HandlerSinks :
       \E r \in {handleError(error, type, context, sink)} :
           /\ phase' = "done"
           /\ op' = "handleError"
           /\ arg' = [error |-> error, type |-> type, context |-> context, sink |-> sink]
           /\ ret' = [threw |-> r.threw, val |-> r.val]
           /\ trace' = r.tr
           /\ UNCHANGED procs

NextErrors == HandleErrorCall \/ Return

SpecErrors == Init /\ [][NextErrors]_vars

Next ==
  \/ BuildMetadataCall
  \/ NextSearches
  \/ HandleErrorCall
  \/ NextServer
  \/ RunCall
  \/ NewBloggerAgent
  \/ SaveAndPublishCall
  \/ DetermineCategoryCall
  \/ DetermineCategoryFromMemoriesCall
  \/ SearchMemoriesCall
  \/ SearchMultipleQueriesCall
  \/ GetRandomMemoriesCall
  \/ GetRecentMemoriesCall
  \/ GetMemoriesByTagsCall
  \/ BuildContextCall
  \/ BuildContextFromMemoryCall
  \/ Return

Spec == Init /\ [][Next]_vars

-----------------------------------------------------------------------------
(* Category inference: what the pool of a finished call says *)

CategoryDone ==
  /\ phase = "done"
  /\ op \in {"determineCategory", "determineCategoryFromMemories"}
  /\ ~ret.threw

DeclIndex(category) ==
  CHOOSE m \in 1..Len(categoryMappings) : categoryMappings[m].category = category

(* The tags of the pool that contain a keyword of the m-th category *)
MatchingTags(pool, m) ==
  {i \in 1..Len(pool) :
     \E k \in 1..Len(categoryMappings[m].keywords) :
        includes(toLowerCase(pool[i]), categoryMappings[m].keywords[k])}

(* For each category, in declaration order: the tags matching it *)
Matching(pool) == [m \in 1..Len(categoryMappings) |-> MatchingTags(pool, m)]

TiedIn(matching) ==
  {m \in DOMAIN matching :
     /\ matching[m] # {}
     /\ \A n \in DOMAIN matching : Cardinality(matching[n]) <= Cardinality(matching[m])}

FirstIn(S) == CHOOSE i \in S : \A j \in S : i <= j

(* C6, as claimed: among the categories with the highest count the one     *)
(* declared earliest in the table is returned, whatever the tag order.     *)
C6_TieBreakByDeclaration ==
  CategoryDone =>
    LET tied == TiedIn(Matching(arg.pool))
    IN  tied # {} => \A m \in tied : DeclIndex(ret.val) <= m

(* C6, amended: among the categories with the highest count the one that   *)
(* was counted first is returned: the one whose first matching tag comes   *)
(* earliest in the pool, and for the same tag the one declared earlier.    *)
C6_TieBreakByFirstCounted ==
  CategoryDone =>
    LET matching == Matching(arg.pool)
        tied == TiedIn(matching)
        got == DeclIndex(ret.val)
    IN  tied # {} =>
          /\ got \in tied
          /\ \A m \in tied :
               \/ FirstIn(matching[got]) < FirstIn(matching[m])
               \/ FirstIn(matching[got]) = FirstIn(matching[m]) /\ got <= m

(* A finished call with two tied categories, the later declared of which   *)
(* was counted first.                                                      *)
C6_Witness ==
  /\ CategoryDone
  /\ LET matching == Matching(arg.pool)
         tied == TiedIn(matching)
     IN  \E m, n \in tied : m < n /\ FirstIn(matching[n]) < FirstIn(matching[m])

(* C7: the category returned has a maximal count, the count of a category  *)
(* being the number of tags that contain one of its keywords once          *)
(* lower-cased; with no matching tag it is "philosophy".                   *)
C7_CategoryHasMaximalCount ==
  CategoryDone =>
    LET matching == Matching(arg.pool)
    IN  /\ ret.val \in Categories
        /\ \A m \in DOMAIN matching :
             Cardinality(matching[m]) <= Cardinality(matching[DeclIndex(ret.val)])
        /\ (TiedIn(matching) = {} => ret.val = "philosophy")

(* A finished call where one tag counts for two categories and a category  *)
(* other than the default wins with a count of two.                        *)
C7_Witness ==
  /\ CategoryDone
  /\ ret.val # "philosophy"
  /\ LET matching == Matching(arg.pool)
     IN  /\ Cardinality(matching[DeclIndex(ret.val)]) = 2
         /\ \E m, n \in DOMAIN matching : m # n /\ matching[m] \cap matching[n] # {}

-----------------------------------------------------------------------------
(* The vector memory client: what the trace of a finished call says *)

QdrantOps ==
  {"searchMemories", "searchMultipleQueries", "getRandomMemories", "getRecentMemories",
   "getMemoriesByTags"}

QdrantDone == phase = "done" /\ op \in QdrantOps

IsRequest(e) == e.k \in {"embed", "search", "scroll"}

(* The positions of the backend requests that failed *)
FailedRequests(tr) == {i \in 1..Len(tr) : IsRequest(tr[i]) /\ tr[i].t = "threw"}

(* The positions of the searches and scrolls the backend answered *)
Answered(tr) == {i \in 1..Len(tr) : tr[i].k \in {"search", "scroll"} /\ tr[i].t = "ok"}

Reports(tr) == {i \in 1..Len(tr) : tr[i].k = "handleError"}

(* The operation that issues the search or scroll request: searchMemories  *)
(* on behalf of searchMultipleQueries and getMemoriesByTags.               *)
Issuer(name) ==
  IF name \in {"searchMultipleQueries", "getMemoriesByTags"} THEN "searchMemories" ELSE name

(* The first max characters of a content *)
Prefix(content, max) == [i \in 1..Min(max, Len(content)) |-> content[i]]

(* What the backend answers to the queries of a searchMultipleQueries      *)
(* call, as insights, in query order and in result order within a query.   *)
HitsOf(a) ==
  Flatten([i \in 1..Len(a.queries) |->
             IF a.queries[i] \in a.env.embedFail \cup a.env.searchFail THEN <<>>
             ELSE [j \in 1..Min(a.limit, Len(a.env.byQuery[a.queries[i]])) |->
                     toInsight(a.env.byQuery[a.queries[i]][j])]])

(* The positions of the hits that no earlier hit shares its prefix with *)
FirstOfGroup(hits) ==
  {i \in 1..Len(hits) :
     \A j \in 1..(i - 1) :
        Prefix(hits[j].content, PrefixLen) # Prefix(hits[i].content, PrefixLen)}

(* The k-th smallest element of a set of numbers *)
Nth(S, k) == CHOOSE i \in S : Cardinality({j \in S : j <= i}) = k

(* C4: the list searchMultipleQueries returns holds no two insights with   *)
(* the same first 100 characters of content; of each group of hits with    *)
(* the same prefix it holds exactly the one that comes first in query      *)
(* order, then in result order, and the kept hits stay in that order.      *)
C4_DedupKeepsFirstOfPrefix ==
  phase = "done" /\ op = "searchMultipleQueries" /\ ~ret.threw =>
    LET hits == HitsOf(arg)
        first == FirstOfGroup(hits)
    IN  /\ Len(ret.val) = Cardinality(first)
        /\ \A k \in 1..Len(ret.val) : ret.val[k] = hits[Nth(first, k)]
        /\ \A k, l \in 1..Len(ret.val) :
             k # l => Prefix(ret.val[k].content, PrefixLen) # Prefix(ret.val[l].content, PrefixLen)

(* A finished searchMultipleQueries whose second query found a hit with    *)
(* the prefix, but not the content, of a hit of the first query, and whose *)
(* result holds the hit of the first query only.                           *)
C4_Witness ==
  /\ phase = "done" /\ op = "searchMultipleQueries" /\ ~ret.threw
  /\ Len(arg.queries) = 2
  /\ arg.queries[1] # arg.queries[2]
  /\ LET hits == HitsOf(arg)
     IN  \E i, j \in 1..Len(hits) :
           /\ i < j
           /\ hits[i].content # hits[j].content
           /\ Prefix(hits[i].content, PrefixLen) = Prefix(hits[j].content, PrefixLen)
           /\ \E k \in 1..Len(ret.val) : ret.val[k] = hits[i]
           /\ \A k \in 1..Len(ret.val) : ret.val[k] # hits[j]
           /\ Len(ret.val) >= 2

(* C8, as claimed: when a request to the embedding or search backend       *)
(* fails, the operation called returns the empty list, does not throw,     *)
(* and the error was reported to the error handler under the name of the   *)
(* operation called.                                                       *)
C8_FailureReportedUnderOwnName ==
  QdrantDone /\ FailedRequests(trace) # {} =>
    /\ ~ret.threw
    /\ ret.val = <<>>
    /\ \E i \in Reports(trace) : trace[i].o = op

(* C8, amended: no operation throws; each failed request is reported,      *)
(* before any further request, under the name of the operation that        *)
(* issued it (searchMemories when searchMultipleQueries or                 *)
(* getMemoriesByTags was called), and no report names another operation    *)
(* than that one or generateEmbedding; the result is the empty list when   *)
(* a request failed and the backend answered no search of the call.        *)
C8_FailureReportedByIssuer ==
  QdrantDone =>
    /\ ~ret.threw
    /\ \A i \in FailedRequests(trace) :
         \E j \in Reports(trace) :
            /\ i < j
            /\ trace[j].o = Issuer(op)
            /\ trace[j].t = "memory_error"
            /\ \A l \in (i + 1)..(j - 1) : ~IsRequest(trace[l])
    /\ \A j \in Reports(trace) : trace[j].o \in {Issuer(op), "generateEmbedding"}
    /\ (FailedRequests(trace) # {} /\ Answered(trace) = {} => ret.val = <<>>)

(* A finished searchMultipleQueries of two queries, the embedding of one   *)
(* and the search of the other failing, with an error log that cannot be   *)
(* written: it returns the empty list.                                     *)
C8_Witness ==
  /\ QdrantDone /\ op = "searchMultipleQueries"
  /\ arg.env.sink = "fails"
  /\ \E i, j \in FailedRequests(trace) : trace[i].k = "embed" /\ trace[j].k = "search"
  /\ Answered(trace) = {}
  /\ ~ret.threw
  /\ ret.val = <<>>

-----------------------------------------------------------------------------
(* The context builder: what a finished call says *)

ContextDone == phase = "done" /\ op \in {"buildContext", "buildContextFromMemory"}

Selects(tr) == {i \in 1..Len(tr) : tr[i].k = "select"}

(* The catch block of buildContext or of buildContextFromMemory reported *)
TopLevelReport(tr) ==
  \E i \in Reports(tr) : tr[i].o \in {"buildContext", "buildContextFromMemory"}

AllDefaults ==
  [tweets |-> <<>>,
   image |-> [defined |-> FALSE, url |-> "undefined", prompt |-> <<>>],
   memoryInsights |-> <<>>,
   tone |-> "philosophical",
   category |-> "philosophy",
   character |-> [null |-> TRUE, tone |-> "", personality |-> ""]]

(* No text to search for: no post text, no post tag, no image prompt *)
NothingToAsk(context) ==
  /\ \A i \in 1..Len(context.tweets) :
       /\ context.tweets[i].text \in {<<>>, NotAString}
       /\ context.tweets[i].vibe_tags = <<>>
  /\ ~context.image.defined \/ context.image.prompt = <<>>

(* C5: with no query there is no embedding request, no search request and  *)
(* an empty result: in searchMultipleQueries([]), and in a buildContext     *)
(* that fetched no post text, no post tag and no image prompt, which does  *)
(* not call the vector memory client at all.  (A buildContext that did     *)
(* not end in its catch block returns the posts and the image it fetched.) *)
C5_NoQueryNoRequest ==
  /\ phase = "done" /\ op = "searchMultipleQueries" /\ arg.queries = <<>> =>
       /\ ~ret.threw
       /\ ret.val = <<>>
       /\ \A i \in 1..Len(trace) : ~IsRequest(trace[i])
  /\ phase = "done" /\ op = "buildContext" /\ ~ret.threw /\ ~TopLevelReport(trace)
       /\ NothingToAsk(ret.val) =>
       /\ ret.val.memoryInsights = <<>>
       /\ \A i \in 1..Len(trace) : ~IsRequest(trace[i]) /\ trace[i].k # "qdrant"

(* A finished buildContext that fetched a post without text and tags and   *)
(* an image without prompt, and made no request for memories.              *)
C5_Witness ==
  /\ phase = "done" /\ op = "buildContext" /\ ~ret.threw /\ ~TopLevelReport(trace)
  /\ ret.val.tweets # <<>>
  /\ ret.val.image.defined
  /\ NothingToAsk(ret.val)
  /\ ret.val.memoryInsights = <<>>
  /\ \A i \in 1..Len(trace) : ~IsRequest(trace[i]) /\ trace[i].k # "qdrant"

(* C1: when every select of a buildContext throws and the error log is     *)
(* written, buildContext returns a context with no post, no memory         *)
(* insight, no image, tone "philosophical" and category "philosophy".      *)
C1_AllSelectsThrow ==
  /\ phase = "done" /\ op = "buildContext"
  /\ Selects(trace) # {}
  /\ \A i \in Selects(trace) : trace[i].t = "threw"
  /\ arg.env.sink = "ok"
  => /\ ~ret.threw
     /\ ret.val.tweets = <<>>
     /\ ret.val.memoryInsights = <<>>
     /\ ~ret.val.image.defined
     /\ ret.val.tone = "philosophical"
     /\ ret.val.category = "philosophy"

(* A finished buildContext whose three selects threw, each reported by its *)
(* own fetch and none by buildContext itself.                              *)
C1_Witness ==
  /\ phase = "done" /\ op = "buildContext"
  /\ Cardinality(Selects(trace)) = 3
  /\ \A i \in Selects(trace) : trace[i].t = "threw"
  /\ arg.env.sink = "ok"
  /\ {trace[i].o : i \in Reports(trace)} = {"getLatestTweets", "getLatestImage", "getCharacterInfo"}
  /\ ~ret.threw
  /\ ret.val.tone = "philosophical"

(* C2: whatever selects, backend requests and error-log inserts fail, a    *)
(* buildContext or buildContextFromMemory returns, with a context that     *)
(* has tweets, memoryInsights, tone and category; after its own catch      *)
(* block ran that context is the all-defaults one.                         *)
C2_NeverThrows ==
  ContextDone =>
    /\ ~ret.threw
    /\ {"tweets", "memoryInsights", "tone", "category"} \subseteq DOMAIN ret.val
    /\ (TopLevelReport(trace) => ret.val = AllDefaults)

(* A finished buildContextFromMemory in which a select threw, the catch    *)
(* block of buildContextFromMemory ran and no error log could be written.  *)
C2_Witness ==
  /\ phase = "done" /\ op = "buildContextFromMemory"
  /\ arg.env.sink = "fails"
  /\ \E i \in Selects(trace) : trace[i].t = "threw"
  /\ TopLevelReport(trace)
  /\ Cardinality({i \in 1..Len(trace) : trace[i].k = "insert" /\ trace[i].t = "threw"}) >= 2
  /\ ~ret.threw

(* getRandomMemories finds nothing: the backend has no point or fails *)
RandomEmpty(env) ==
  \/ env.down = "search"
  \/ RandomVector \in env.searchFail
  \/ env.byQuery[RandomVector] = <<>>

(* C3: when getRandomMemories returns the empty list,                      *)
(* buildContextFromMemory returns what buildContext returns on the same    *)
(* stores, backend and random draw, after making the same requests.        *)
C3_DowngradeIsBuildContext ==
  phase = "done" /\ op = "buildContextFromMemory" /\ RandomEmpty(arg.env) =>
    LET tweetLed == buildContext(arg.env)
        n == Len(trace) - Len(tweetLed.tr)
    IN  /\ ret.threw = tweetLed.threw
        /\ ret.val = tweetLed.val
        /\ n >= 0
        /\ SubSeq(trace, n + 1, Len(trace)) = tweetLed.tr
        /\ \A i \in 1..n : trace[i].k \notin {"select", "embed"}

(* A finished buildContextFromMemory that found no random memory and       *)
(* returned posts, an image and memory insights.                           *)
C3_Witness ==
  /\ phase = "done" /\ op = "buildContextFromMemory" /\ RandomEmpty(arg.env)
  /\ ~ret.threw
  /\ ret.val.tweets # <<>>
  /\ ret.val.image.defined
  /\ ret.val.memoryInsights # <<>>

(* Every tag of the stored posts and of the stored memories is a string,   *)
(* as the types Tweet and MemoryInsight declare.                           *)
WellTyped(env) ==
  /\ \A i \in 1..Len(env.tweetStore) : NotAString \notin Range(env.tweetStore[i].vibe_tags)
  /\ \A i \in 1..Len(env.other) : NotAString \notin Range(env.other[i].payload.tags)

(* The environment in which the source behind a select is empty and the    *)
(* select does not throw.                                                  *)
EmptiedAt(env, site) ==
  [env EXCEPT !.failing = {},
              !.tweetStore = IF site = "getLatestTweets" THEN <<>> ELSE @,
              !.imageStore = IF site \in ImageSites THEN <<>> ELSE @,
              !.characters = IF site = "character_files" THEN <<>> ELSE @]

(* C9: when exactly one of the post, image and persona fetches of a        *)
(* buildContext throws (and the tags are strings), the context is the one  *)
(* of the same call with that source empty; the field of the failed fetch  *)
(* has its default and the catch block of buildContext does not run.       *)
C9_FailingFetchChangesItsField ==
  /\ phase = "done" /\ op = "buildContext"
  /\ Cardinality(arg.env.failing) = 1
  /\ WellTyped(arg.env)
  => LET site == CHOOSE x \in arg.env.failing : TRUE
     IN  /\ ~ret.threw
         /\ ret.val = buildContext(EmptiedAt(arg.env, site)).val
         /\ (site = "getLatestTweets" => ret.val.tweets = <<>>)
         /\ (site \in ImageSites => ~ret.val.image.defined)
         /\ (site = "character_files" => ret.val.tone = "philosophical")
         /\ ~TopLevelReport(trace)

(* A finished buildContext whose select of the prompt threw: no image,     *)
(* but the posts, the tone of the persona and memory insights.             *)
C9_Witness ==
  /\ phase = "done" /\ op = "buildContext"
  /\ arg.env.failing = {"prompts"}
  /\ WellTyped(arg.env)
  /\ ~ret.threw
  /\ ~ret.val.image.defined
  /\ ret.val.tweets # <<>>
  /\ ret.val.tone = "technical"
  /\ ret.val.memoryInsights # <<>>

(* C10: every context returned has a tone that is not empty and a          *)
(* category of the category table.                                         *)
C10_ToneAndCategoryPopulated ==
  ContextDone /\ ~ret.threw =>
    /\ ret.val.tone # ""
    /\ ret.val.category \in {"philosophy", "technology", "art", "culture", "personal"}

(* A finished buildContextFromMemory that built its context from memories  *)
(* and from a persona that stores neither tone nor personality.            *)
C10_Witness ==
  /\ phase = "done" /\ op = "buildContextFromMemory" /\ ~ret.threw
  /\ ~TopLevelReport(trace)
  /\ ret.val.memoryInsights # <<>>
  /\ ~ret.val.character.null
  /\ ret.val.character.tone = "" /\ ret.val.character.personality = ""
  /\ ret.val.tone = "philosophical"
  /\ ret.val.category = "technology"

-----------------------------------------------------------------------------
(* The image of a context *)

(* created_at of the image rows, as a day number *)
DayOf(created_at) == CHOOSE d \in 1..3 : created_at = <<"d1", "d2", "d3">>[d]

(* The most recently created row of a store that is not empty *)
Latest(rows) ==
  rows[CHOOSE i \in 1..Len(rows) :
         \A j \in 1..Len(rows) : DayOf(rows[j].created_at) <= DayOf(rows[i].created_at)]

(* The text of the prompt record of an image row, "" when it has none *)
PromptTextOf(image, prompts) ==
  IF image.prompt_id = Undefined \/ whereId(prompts, image.prompt_id) = <<>> THEN <<>>
  ELSE whereId(prompts, image.prompt_id)[1].text

(* A finished buildContext that read a non-empty image store, none of      *)
(* whose image selects threw, and that did not end in its catch block.     *)
ImageFetched ==
  /\ phase = "done" /\ op = "buildContext" /\ ~ret.threw
  /\ arg.env.imageStore # <<>>
  /\ arg.env.failing \cap ImageSites = {}
  /\ ~TopLevelReport(trace)

(* C11: in buildContext, when the image store is not empty, the image of   *)
(* the context is the most recently created image of the store, with the   *)
(* text of its prompt record, or the empty string when it has no prompt.   *)
C11_ImageIsLatest ==
  ImageFetched =>
    /\ ret.val.image.defined
    /\ ret.val.image.url = Latest(arg.env.imageStore).image_url
    /\ ret.val.image.prompt = PromptTextOf(Latest(arg.env.imageStore), arg.env.promptStore)

-----------------------------------------------------------------------------
(* The posts of a memory-led context *)

(* A finished buildContextFromMemory that built its context from sampled   *)
(* memories carrying tags, none of whose selects of posts threw.           *)
PostsByTags ==
  /\ phase = "done" /\ op = "buildContextFromMemory" /\ ~ret.threw
  /\ ~TopLevelReport(trace)
  /\ memoryTagsOf(ret.val.memoryInsights) # <<>>
  /\ arg.env.failing \cap {"getLatestTweets", "getTweetsByTags"} = {}

(* C12: in buildContextFromMemory with memory tags, the post list never    *)
(* has more than 5 posts, and it has exactly 5 whenever the post store     *)
(* holds at least 5.                                                       *)
C12_PostsWithinLimit ==
  PostsByTags =>
    /\ Len(ret.val.tweets) <= DefaultTweetLimit
    /\ Len(arg.env.tweetStore) >= DefaultTweetLimit => Len(ret.val.tweets) = DefaultTweetLimit

-----------------------------------------------------------------------------
(* The category of a memory-led context *)

(* A finished buildContextFromMemory whose random sample was not empty *)
SampledMemories ==
  /\ phase = "done" /\ op = "buildContextFromMemory" /\ ~ret.threw
  /\ getRandomMemories(arg.memoryCount, arg.env).val # <<>>

(* The post stores the same call is run again with *)
OtherPosts == {<<>>, <<rowPlain>>, taggedStore}

(* The category of the same call over another post store *)
CategoryWithPosts(store) ==
  buildContextFromMemory(arg.memoryCount, [arg.env EXCEPT !.tweetStore = store]).val.category

(* C13: in the memory-led strategy the category is inferred from the tags  *)
(* of the sampled memories alone: the same call with the same sampled      *)
(* memories and other posts returns the same category.                     *)
C13_CategoryFromMemoriesOnly ==
  SampledMemories =>
    /\ \A store \in OtherPosts : CategoryWithPosts(store) = ret.val.category
    /\ ~TopLevelReport(trace) =>
         ret.val.category = inferCategory(memoryTagsOf(ret.val.memoryInsights)).val

(* A finished memory-led build whose posts alone would give another        *)
(* category than the one returned.                                         *)
C13_Witness ==
  /\ SampledMemories
  /\ ~TopLevelReport(trace)
  /\ ret.val.tweets # <<>>
  /\ ~determineCategory(ret.val.tweets, <<>>).threw
  /\ determineCategory(ret.val.tweets, <<>>).val = "technology"
  /\ ret.val.category = "philosophy"

-----------------------------------------------------------------------------
(* The error handler *)

HandleErrorDone == phase = "done" /\ op = "handleError"

(* The positions of the trace where the failure to write is put on the     *)
(* console                                                                 *)
LogFailures(tr) == {i \in 1..Len(tr) : tr[i].k = "console"}

(* C20: handleError never throws when writing the error record fails, be   *)
(* it that the insert throws or that no database service is attached: it   *)
(* writes the failure to the console once, right after the failed write,   *)
(* and returns.                                                            *)
C20_LoggingFailureIsSwallowed ==
  HandleErrorDone /\ arg.sink # "ok" =>
    /\ ~ret.threw
    /\ Cardinality(LogFailures(trace)) = 1
    /\ LET at == CHOOSE i \in LogFailures(trace) : TRUE
       IN  /\ trace[at] = logFailure
           /\ (arg.sink = "fails" => trace[at - 1].k = "insert" /\ trace[at - 1].t = "threw")
           /\ (arg.sink = "null" => trace[at - 1].k = "handleError")

(* A finished handleError with no database service attached, for a         *)
(* network error of an operation that can be retried: the failure is on    *)
(* the console, the retry was waited for, and the call returned.           *)
C20_Witness ==
  /\ HandleErrorDone
  /\ arg.sink = "null"
  /\ arg.type = "network_error"
  /\ ~ret.threw
  /\ LogFailures(trace) # {}
  /\ Has(trace, "scheduleRetry")

-----------------------------------------------------------------------------
(* Saving and publishing *)

PublishDone == phase = "done" /\ op = "saveAndPublish"

(* The positions of the requests to WordPress *)
WordPressCalls(tr) == {i \in 1..Len(tr) : tr[i].k = "wordpress"}

(* The positions of the posts requests WordPress answered *)
Published(tr) == {i \in WordPressCalls(tr) : tr[i].o = "posts" /\ tr[i].t = "ok"}

(* The positions of the inserts and updates of whole posts in blog_posts *)
Saves(tr) ==
  {i \in 1..Len(tr) :
     /\ tr[i].k \in {"insert", "update"} /\ tr[i].o = "blog_posts"
     /\ DOMAIN tr[i].x.data # {"post_url"}}

(* The positions of the updates of post_url *)
UrlUpdates(tr) ==
  {i \in 1..Len(tr) :
     /\ tr[i].k = "update" /\ tr[i].o = "blog_posts"
     /\ DOMAIN tr[i].x.data = {"post_url"}}

(* C16: saveAndPublish calls WordPress only when WordPress is enabled and  *)
(* the status of the post is 'published', and only after the save          *)
(* succeeded; when WordPress answers with a link, the returned post has    *)
(* it as post_url and an update of post_url matching the id of the saved   *)
(* post is issued after the WordPress call.                                *)
C16_PublishOnlyWhenEnabledAndSaved ==
  PublishDone =>
    /\ \A i \in WordPressCalls(trace) :
         /\ arg.env.wordpressEnabled
         /\ arg.blogPost.status = "published"
         /\ \E j \in Saves(trace) : j < i /\ trace[j].t = "ok"
    /\ \A i \in Published(trace) :
         arg.env.wp = "link" =>
           /\ ~ret.threw
           /\ ret.val.post_url = WordPressLink
           /\ \E j \in UrlUpdates(trace) :
                /\ i < j
                /\ trace[j].x = [data |-> [post_url |-> WordPressLink],
                                 match |-> [id |-> ret.val.id]]

(* A finished saveAndPublish of a new published post with an image:        *)
(* inserted, sent to WordPress, and returned with the link and the id the  *)
(* store gave it.                                                          *)
C16_Witness ==
  /\ PublishDone /\ ~ret.threw
  /\ arg.blogPost.id = Undefined
  /\ arg.blogPost.image_url # Undefined
  /\ Published(trace) # {}
  /\ ret.val.id = "789"
  /\ ret.val.post_url = WordPressLink
  /\ \E j \in UrlUpdates(trace) : trace[j].t = "ok" /\ trace[j].x.match.id = "789"

(* The positions of the posts requests that WordPress failed *)
FailedPublish(tr) == {i \in WordPressCalls(tr) : tr[i].o = "posts" /\ tr[i].t = "threw"}

(* The positions of the requests that write to blog_posts *)
PostWrites(tr) ==
  {i \in 1..Len(tr) : tr[i].k \in {"insert", "update", "delete"} /\ tr[i].o = "blog_posts"}

(* C17: when the posts request to WordPress fails, saveAndPublish rejects  *)
(* with the error of that request, after reporting it under operation     *)
(* 'publishToWordPress'; the post was saved before the request and no      *)
(* request touches blog_posts after it.                                    *)
C17_FailedPublishRejectsAndKeepsRow ==
  PublishDone =>
    \A i \in FailedPublish(trace) :
      /\ ret.threw
      /\ ret.val = wpError
      /\ \E j \in Reports(trace) :
           /\ i < j
           /\ trace[j].o = "publishToWordPress"
           /\ trace[j].t = "api_failure"
           /\ trace[j].x = wpError.message
      /\ \E j \in Saves(trace) : j < i /\ trace[j].t = "ok"
      /\ \A j \in PostWrites(trace) : j < i

(* A finished saveAndPublish of a new published post whose insert          *)
(* succeeded and whose WordPress request failed, while the error log       *)
(* could not be written either.                                            *)
C17_Witness ==
  /\ PublishDone /\ ret.threw
  /\ FailedPublish(trace) # {}
  /\ arg.blogPost.id = Undefined
  /\ arg.env.sink = "fails"
  /\ \E j \in Saves(trace) : trace[j].k = "insert" /\ trace[j].t = "ok"

(* C18: saveAndPublish saves the post with one request: a post without id  *)
(* is inserted as it is, version included; a post with an id is updated,   *)
(* matching on that id, with its version incremented by one.  No post      *)
(* with an id is inserted and no post without one is updated.              *)
C18_InsertWithoutIdUpdateWithId ==
  PublishDone =>
    /\ Cardinality(Saves(trace)) = 1
    /\ \A i \in Saves(trace) :
         IF arg.blogPost.id = Undefined
         THEN /\ trace[i].k = "insert"
              /\ trace[i].x.data = arg.blogPost
         ELSE /\ trace[i].k = "update"
              /\ trace[i].x.match = [id |-> arg.blogPost.id]
              /\ trace[i].x.data = [arg.blogPost EXCEPT !.version = arg.blogPost.version + 1]

(* A finished saveAndPublish of a post with an id and version 2: the       *)
(* update carries version 3.                                               *)
C18_Witness ==
  /\ PublishDone /\ ~ret.threw
  /\ arg.blogPost.id = "456"
  /\ arg.blogPost.version = 2
  /\ \E i \in Saves(trace) :
       /\ trace[i].k = "update" /\ trace[i].t = "ok"
       /\ trace[i].x.data.version = 3

-----------------------------------------------------------------------------
(* WordPress in the configuration *)

AgentBuilt == phase = "done" /\ op = "new BloggerAgent" /\ ~ret.threw

(* C19: the PublisherAdapter that BloggerAgent builds has WordPress        *)
(* enabled when WORDPRESS_URL, WORDPRESS_USERNAME and WORDPRESS_PASSWORD   *)
(* are all set, and disabled when one of them is not.                      *)
C19_WordPressEnabledWhenConfigured ==
  AgentBuilt => (ret.val.wordpressEnabled <=> WordPressVars \subseteq arg.processEnv)

-----------------------------------------------------------------------------
(* Runs *)

RunDone == phase = "done" /\ op = "run"

(* C14: run() completes without throwing whichever stage fails: context    *)
(* building, composition, metadata, saving, saving the tweet draft or      *)
(* logging the activity.  A failure that generateBlogPost throws ends on   *)
(* the console, and the tweet and the activity log are then skipped.       *)
C14_RunNeverThrows ==
  RunDone =>
    /\ ~ret.threw
    /\ \A i \in 1..Len(trace) :
         trace[i].t = "threw" /\ (trace[i].k = "stage" \/ trace[i].o = "blog_posts") =>
           /\ trace[Len(trace)] = runFailure
           /\ \A j \in 1..Len(trace) : trace[j].o \notin {"tweet_drafts", "activity_logs"}

(* A finished run whose save failed while the error log could not be       *)
(* written: the failure is on the console and the run returned.            *)
C14_Witness ==
  /\ RunDone /\ ~ret.threw
  /\ arg.env.save = "fails" /\ arg.env.sink = "fails"
  /\ \E i \in 1..Len(trace) : trace[i].o = "blog_posts" /\ trace[i].t = "threw"
  /\ trace[Len(trace)] = runFailure

-----------------------------------------------------------------------------
(* Runs in flight *)

(* The number of runs that were started and are not finished *)
InFlight ==
  (IF scheduler.pc \in {"first", "running"} THEN 1 ELSE 0)
    + Cardinality({h \in 1..MaxRequests : handlers[h] > 0})

(* C15: at most one generation run is in flight at any time: a run         *)
(* started by the scheduler loop or by POST /create does not overlap       *)
(* another run that is not finished.                                       *)
C15_OneRunAtATime == InFlight <= 1

-----------------------------------------------------------------------------
(* Retries of the error handler *)

(* The text contains the keyword, letter case aside *)
Mentions(message, keyword) ==
  \E from \in 1..Len(message) :
    /\ from + Len(keyword) - 1 <= Len(message)
    /\ \A j \in 1..Len(keyword) : toLowerChar(message[from + j - 1]) = keyword[j]

Transient(type, message) ==
  \/ type = "network_error"
  \/ type = "api_failure" /\ Mentions(message, kwRateLimit)
  \/ type = "database_error" /\ Mentions(message, kwConnection)

(* The attempt and the attempt limit a context stands for *)
AttemptOf(context) == IF context.attempt = 0 THEN 1 ELSE context.attempt

MaxAttemptsOf(context) == IF context.maxAttempts = 0 THEN 3 ELSE context.maxAttempts

Retries(tr) == {i \in 1..Len(tr) : tr[i].k = "scheduleRetry"}

(* C21: handleError schedules a retry exactly when a context is given, the *)
(* error is transient (a network error, an API failure whose message       *)
(* mentions "rate limit", a database error whose message mentions          *)
(* "connection", letter case aside) and attempt < maxAttempts, attempt     *)
(* defaulting to 1 and maxAttempts to 3; otherwise no retry is scheduled.  *)
C21_RetryExactlyWhenTransientAndAttemptsLeft ==
  HandleErrorDone =>
    LET context == arg.context
        due == /\ context.given
               /\ Transient(arg.type, arg.error.message)
               /\ AttemptOf(context) < MaxAttemptsOf(context)
    IN  /\ due => Cardinality(Retries(trace)) = 1
        /\ ~due => Retries(trace) = {}

(* A finished handleError for an API failure "Rate limit" at attempt 2 of  *)
(* the default 3: the retry is scheduled.                                  *)
C21_Witness ==
  /\ HandleErrorDone
  /\ arg.type = "api_failure"
  /\ arg.error = rateLimitError
  /\ arg.context.given
  /\ arg.context.attempt = 2
  /\ arg.context.maxAttempts = 0
  /\ Retries(trace) # {}

(* C22: after a transient failure with attempts left, the retry the error  *)
(* handler schedules runs the failed operation again: in a buildContext    *)
(* whose select of the latest posts failed with a connection error, the    *)
(* retry scheduled for getLatestTweets is followed by another select of    *)
(* getLatestTweets.                                                        *)
C22_RetryRunsOperationAgain ==
  phase = "done" /\ op = "buildContext" =>
    \A i \in Retries(trace) :
      trace[i].o = "getLatestTweets" =>
        \E j \in (i + 1)..Len(trace) :
          trace[j].k = "select" /\ trace[j].o = "getLatestTweets"

-----------------------------------------------------------------------------
(* The metadata builder *)

MetadataDone == phase = "done" /\ op = "buildMetadata"

SameIgnoringCase(a, b) ==
  /\ Len(a) = Len(b)
  /\ \A i \in 1..Len(a) : toLowerChar(a[i]) = toLowerChar(b[i])

(* The tags the posts and the memories of a context carry *)
ContextTags(context) ==
  UNION ({Range(context.tweets[i].vibe_tags) : i \in 1..Len(context.tweets)}
           \cup {Range(context.memoryInsights[i].tags) : i \in 1..Len(context.memoryInsights)})

DefaultTags(category) == <<tagMarvin, tagBlog, chars(category)>>

(* C23: the tags buildMetadata returns number between 1 and 10 and no two  *)
(* of them are equal ignoring case; when the context has no post tag and   *)
(* no memory tag and the title and headers give no keyword, they are       *)
(* exactly marvin, blog and the category of the context.                   *)
C23_TagsBoundedAndDistinct ==
  MetadataDone =>
    LET tags == ret.val.tags
    IN  /\ ~ret.threw
        /\ Len(tags) >= 1
        /\ Len(tags) <= 10
        /\ \A i, j \in 1..Len(tags) : i < j => ~SameIgnoringCase(tags[i], tags[j])
        /\ (/\ ContextTags(arg.context) = {}
            /\ extractKeywords(arg.content.title, arg.content.markdown) = <<>>
            => tags = DefaultTags(arg.context.category))

(* A finished buildMetadata for a post tagged "ai" and "AI" and a memory   *)
(* with eleven tags: ten tags come back, "ai" first and once.              *)
C23_Witness ==
  /\ MetadataDone
  /\ arg.context.tweets[1].vibe_tags = <<tagAILower, tagAI>>
  /\ arg.context.memoryInsights[1].tags = manyTags
  /\ Len(ret.val.tags) = 10
  /\ ret.val.tags[1] = tagAILower
  /\ ret.val.tags[2] = manyTags[1]

(* C24: when the lookup of the character in the data store fails,          *)
(* buildMetadata reports the error under the operation buildMetadata and   *)
(* returns the fallback metadata: character_id default, the tags marvin,   *)
(* blog and the category, the category and the tone of the context.        *)
C24_LookupFailureGivesFallbackMetadata ==
  MetadataDone /\ "getCharacterId" \in arg.env.failing =>
    /\ ~ret.threw
    /\ \E i \in Reports(trace) : trace[i].o = "buildMetadata"
    /\ ret.val.character_id = "default"
    /\ ret.val.tags = DefaultTags(arg.context.category)
    /\ ret.val.category = arg.context.category
    /\ ret.val.tone = arg.context.tone

-----------------------------------------------------------------------------
(* The vector memory client: a failing embedding *)

Requests(tr, k) == {i \in 1..Len(tr) : tr[i].k = k}

(* C25: in searchMemories, when the embedding of the query fails, no       *)
(* vector-search request is sent to the backend and the result is the      *)
(* empty list.                                                             *)
C25_NoSearchAfterFailedEmbedding ==
  /\ phase = "done" /\ op = "searchMemories"
  /\ \E i \in Requests(trace, "embed") : trace[i].t = "threw"
  => /\ Requests(trace, "search") = {}
     /\ ~ret.threw
     /\ ret.val = <<>>

(* A finished searchMemories whose embedding request failed while the      *)
(* backend had points to answer the query with.                            *)
C25_Witness ==
  /\ phase = "done" /\ op = "searchMemories"
  /\ Cardinality(Requests(trace, "embed")) = 1
  /\ \A i \in Requests(trace, "embed") : trace[i].t = "threw"
  /\ arg.env.byQuery[arg.query] # <<>>
  /\ Requests(trace, "search") = {}
  /\ ret.val = <<>>

-----------------------------------------------------------------------------
(* The vector memory client: concurrent searches *)

(* C26: the result of searchMultipleQueries does not depend on the order   *)
(* in which its concurrent searches complete: for every interleaving of    *)
(* their answers it is the per-query results concatenated in query order   *)
(* and then deduplicated, so of two duplicates the one of the earlier      *)
(* query survives, not the one of the search that finished first.          *)
C26_ResultIndependentOfCompletionOrder ==
  phase = "done" /\ op = "searchMultipleQueries" =>
    LET hits == HitsOf(arg)
        first == FirstOfGroup(hits)
    IN  /\ ~ret.threw
        /\ ret.val = [k \in 1..Cardinality(first) |-> hits[Nth(first, k)]]

(* A finished searchMultipleQueries of two queries whose second search was *)
(* answered before the first: the memory found by the first query          *)
(* survives, its duplicate found by the second does not.                   *)
C26_Witness ==
  /\ phase = "done" /\ op = "searchMultipleQueries"
  /\ Len(arg.queries) = 2
  /\ arg.env.byQuery[arg.queries[1]] = <<pointA1>>
  /\ arg.env.byQuery[arg.queries[2]] = <<pointA2, pointB>>
  /\ \E i, j \in Requests(trace, "search") :
       /\ i < j
       /\ trace[i].x = arg.queries[2] /\ trace[i].t = "ok"
       /\ trace[j].x = arg.queries[1] /\ trace[j].t = "ok"
  /\ ret.val = <<toInsight(pointA1), toInsight(pointB)>>

-----------------------------------------------------------------------------
(* The pipeline of a run *)

Stages(tr, names) == {i \in 1..Len(tr) : tr[i].k = "stage" /\ tr[i].o \in names}

Writes(tr, table) == {i \in 1..Len(tr) : tr[i].k \in {"insert", "update"} /\ tr[i].o = table}

(* Every step of these follows a step of those that succeeded *)
OnlyAfterSuccess(tr, these, those) ==
  \A i \in these : \E j \in those : j < i /\ tr[j].t = "ok"

(* C27: in every run the side effects come in pipeline order and only      *)
(* after the earlier stages succeeded: the context is built once, then the *)
(* content is composed, then the metadata built, then the post saved; a    *)
(* tweet draft is inserted only after the save of the post succeeded, and  *)
(* the blog_created activity is logged only after the tweet generation.    *)
(* When the save fails, no tweet draft is inserted and no activity logged. *)
C27_PipelineOrder ==
  RunDone =>
    LET contexts == Stages(trace, {"buildContext", "buildContextFromMemory"})
        composes == Stages(trace, {"compose"})
        metadatas == Stages(trace, {"buildMetadata"})
        saves == Writes(trace, "blog_posts")
        drafts == Writes(trace, "tweet_drafts")
        activities == Writes(trace, "activity_logs")
    IN  /\ Cardinality(contexts) = 1
        /\ \A steps \in {composes, metadatas, saves, drafts, activities} :
             Cardinality(steps) <= 1
        /\ OnlyAfterSuccess(trace, composes, contexts)
        /\ OnlyAfterSuccess(trace, metadatas, composes)
        /\ OnlyAfterSuccess(trace, saves, metadatas)
        /\ OnlyAfterSuccess(trace, drafts, saves)
        /\ \A i \in activities : \E j \in drafts : j < i
        /\ (\E i \in saves : trace[i].t = "threw") => drafts = {} /\ activities = {}

(* A finished run in which every stage and every write succeeded: context, *)
(* composition, metadata, the insert of the post, of the tweet draft and   *)
(* of the activity, in this order.                                         *)
C27_Witness ==
  /\ RunDone
  /\ \E c \in Stages(trace, {"buildContextFromMemory"}), m \in Stages(trace, {"buildMetadata"}),
        s \in Writes(trace, "blog_posts"), d \in Writes(trace, "tweet_drafts"),
        a \in Writes(trace, "activity_logs") :
       /\ c < m /\ m < s /\ s < d /\ d < a
       /\ trace[s].t = "ok" /\ trace[d].t = "ok" /\ trace[a].t = "ok"

-----------------------------------------------------------------------------
(* The posts of a memory-led context *)

(* The post is one of the store: its id, text, url and creation time *)
IsStoredPost(post, store) ==
  \E i \in 1..Len(store) :
    /\ post.id = store[i].tweet_id
    /\ post.text = store[i].tweet_text
    /\ post.url = store[i].tweet_url
    /\ post.created_at = store[i].created_at

(* C29: every post in the list the tag-based fetch of the memory-led       *)
(* strategy returns, the posts added by the top-up with the most recent    *)
(* posts included, carries the id, text, url and creation time of a post   *)
(* of the post store.                                                      *)
C29_PostsAreStoredPosts ==
  PostsByTags =>
    \A i \in 1..Len(ret.val.tweets) : IsStoredPost(ret.val.tweets[i], arg.env.tweetStore)

(* The stored post an entry of the list was made from: the posts of the    *)
(* stores have creation times of their own, and an entry keeps the         *)
(* creation time of its post.                                              *)
SourceOf(post, store) == {i \in 1..Len(store) : store[i].created_at = post.created_at}

(* C30: the post list of a context built by buildContextFromMemory never   *)
(* contains the same stored post twice, also when the posts matched by tag *)
(* are topped up with the most recent posts.                               *)
C30_NoPostTwice ==
  phase = "done" /\ op = "buildContextFromMemory" /\ ~ret.threw =>
    \A i, j \in 1..Len(ret.val.tweets) :
      i < j => SourceOf(ret.val.tweets[i], arg.env.tweetStore)
                 \cap SourceOf(ret.val.tweets[j], arg.env.tweetStore) = {}

====
